---- MODULE Spec2Model ----
(***************************************************************************)
(* Grid layout engine of the dashboard (src/src/utils/gridHelpers.ts).     *)
(* Every exported operation is a pure function of the layout it is handed; *)
(* the state machine draws a layout the caller can own (non-overlapping,   *)
(* inside the grid), calls one operation on it with arguments drawn from   *)
(* bounded sets and records what the operation returned.                   *)
(***************************************************************************)
EXTENDS Integers, Sequences, FiniteSets, TLC

VARIABLES
    layouts,    \* the caller-owned layout handed to the operation (GridItemLayout[])
    call,       \* the operation called and its arguments
    result,     \* what the operation returned
    back,       \* the second calculateSwap's return value when the swap is undone
    loop,       \* the auto-adjust shrink loop's locals while a call is running step by step
    store       \* the persisted layout and the pending debounced save (LayoutContext)

vars == <<layouts, call, result, back, loop, store>>

\* ---------------------------------------------------------------- bounds
Cols == 4          \* grid columns of the modelled session
MaxRows == 2       \* grid rows of the modelled session
MaxSize == 2       \* largest w and h of a rect of the input layout
MaxRects == 3      \* most rects in the input layout

Ids == <<"a", "b", "c", "d", "e">>
NoId == "-"        \* an omitted excludeId (undefined)
Null == [null |-> TRUE]

Min(a, b) == IF a < b THEN a ELSE b
Max(a, b) == IF a > b THEN a ELSE b
Abs(a) == IF a < 0 THEN -a ELSE a

Range(s) == {s[k] : k \in DOMAIN s}

\* a lookup that falls back on the first widget when the id is absent
FindOrFirst(ls, id) ==
    IF \E k \in DOMAIN ls : ls[k].i = id
    THEN ls[CHOOSE k \in DOMAIN ls : ls[k].i = id /\ \A j \in 1..(k - 1) : ls[j].i # id]
    ELSE IF ls # <<>> THEN ls[1] ELSE [null |-> TRUE]

\* layouts.find(l => l.i === id)
Find(ls, id) ==
    IF \E k \in DOMAIN ls : ls[k].i = id
    THEN ls[CHOOSE k \in DOMAIN ls : ls[k].i = id /\ \A j \in 1..(k - 1) : ls[j].i # id]
    ELSE Null

\* layouts.filter(pred) for the id-based predicates the code uses
RECURSIVE FilterIds(_, _)
FilterIds(ls, keep) ==
    IF ls = <<>> THEN <<>>
    ELSE IF Head(ls).i \in keep THEN <<Head(ls)>> \o FilterIds(Tail(ls), keep)
    ELSE FilterIds(Tail(ls), keep)

IdsOf(ls) == {ls[k].i : k \in DOMAIN ls}

\* ------------------------------------------------------- occupancy grid
Cells(x, y, w, h) == {<<row, col>> : row \in y..(y + h - 1), col \in x..(x + w - 1)}

\* the fill loops: rows and columns clipped to the grid
ClippedCells(x, y, w, h, cols, maxRows) ==
    {c \in Cells(x, y, w, h) : c[1] >= 0 /\ c[1] < maxRows /\ c[2] >= 0 /\ c[2] < cols}

createOccupancyGrid(ls, cols, maxRows, excludeId) ==
    [grid |-> UNION {ClippedCells(ls[k].x, ls[k].y, ls[k].w, ls[k].h, cols, maxRows) :
                        k \in {j \in DOMAIN ls : ls[j].i # excludeId}},
     cols |-> cols, rows |-> maxRows]

\* occupancy.grid[row][col] = true over a rect, clipped
MarkOccupied(occ, x, y, w, h) ==
    [occ EXCEPT !.grid = @ \cup ClippedCells(x, y, w, h, occ.cols, occ.rows)]

\* occupancy.grid[row][col] = false over a rect, clipped
ClearOccupied(occ, x, y, w, h) ==
    [occ EXCEPT !.grid = @ \ ClippedCells(x, y, w, h, occ.cols, occ.rows)]

\* a fit test that looks at the grid bounds only
canFitInBounds(occ, x, y, w, h) ==
    ~(x < 0 \/ y < 0 \/ x + w > occ.cols \/ y + h > occ.rows)

canFitAt(occ, x, y, w, h) ==
    IF x < 0 \/ y < 0 \/ x + w > occ.cols \/ y + h > occ.rows THEN FALSE
    ELSE Cells(x, y, w, h) \cap occ.grid = {}

\* a scan that walks down each column before moving right
RECURSIVE ScanByColumn(_, _, _, _, _)
ScanByColumn(occ, w, h, x, y) ==
    IF x > occ.cols - w THEN [null |-> TRUE]
    ELSE IF y > occ.rows - h THEN ScanByColumn(occ, w, h, x + 1, 0)
    ELSE IF canFitAt(occ, x, y, w, h) THEN [x |-> x, y |-> y]
    ELSE ScanByColumn(occ, w, h, x, y + 1)

RECURSIVE ScanFirstFit(_, _, _, _, _)
ScanFirstFit(occ, w, h, x, y) ==
    IF y > occ.rows - h THEN Null
    ELSE IF x > occ.cols - w THEN ScanFirstFit(occ, w, h, 0, y + 1)
    ELSE IF canFitAt(occ, x, y, w, h) THEN [x |-> x, y |-> y]
    ELSE ScanFirstFit(occ, w, h, x + 1, y)

findFirstFitPosition(occ, w, h) == ScanFirstFit(occ, w, h, 0, 0)

\* the loops of findAllFitPositions: every fitting position, in scan order
RECURSIVE ScanAllFits(_, _, _, _, _)
ScanAllFits(occ, w, h, x, y) ==
    IF y > occ.rows - h THEN <<>>
    ELSE IF x > occ.cols - w THEN ScanAllFits(occ, w, h, 0, y + 1)
    ELSE IF canFitAt(occ, x, y, w, h)
    THEN <<[x |-> x, y |-> y, w |-> w, h |-> h]>> \o ScanAllFits(occ, w, h, x + 1, y)
    ELSE ScanAllFits(occ, w, h, x + 1, y)

findAllFitPositions(occ, w, h) == ScanAllFits(occ, w, h, 0, 0)

\* an overlap test that also counts rects sharing an edge
zonesOverlapOrTouch(a, b) ==
    ~(a.x > b.x + b.w \/ a.x + a.w < b.x \/ a.y > b.y + b.h \/ a.y + a.h < b.y)

zonesOverlap(a, b) ==
    ~(a.x >= b.x + b.w \/ a.x + a.w <= b.x \/ a.y >= b.y + b.h \/ a.y + a.h <= b.y)

Zone(x, y, w, h) == [x |-> x, y |-> y, w |-> w, h |-> h]
ZoneOf(l) == Zone(l.x, l.y, l.w, l.h)

\* ------------------------------------------------------- layout validity
\* the two invariants of a settled layout, stated on the cells the rects cover
RectCells(r) == {<<row, col>> : row \in r.y..(r.y + r.h - 1), col \in r.x..(r.x + r.w - 1)}

Inside(r, cols, maxRows) == r.x >= 0 /\ r.y >= 0 /\ r.x + r.w <= cols /\ r.y + r.h <= maxRows

PairwiseDisjoint(ls) ==
    \A j, k \in DOMAIN ls : j < k => RectCells(ls[j]) \cap RectCells(ls[k]) = {}

AllInside(ls, cols, maxRows) == \A k \in DOMAIN ls : Inside(ls[k], cols, maxRows)

ValidLayout(ls, cols, maxRows) == PairwiseDisjoint(ls) /\ AllInside(ls, cols, maxRows)

\* the rects a layout entry with this id can be
RectsOf(id) ==
    {r \in {[i |-> id, x |-> x, y |-> y, w |-> w, h |-> h] :
                w \in 1..MaxSize, h \in 1..MaxSize, x \in 0..(Cols - 1), y \in 0..(MaxRows - 1)} :
        Inside(r, Cols, MaxRows)}

\* the layouts of n rects the caller can own: each rect inside the grid and clear of
\* the ones before it
RECURSIVE LayoutsOfLen(_)
LayoutsOfLen(n) ==
    IF n = 0 THEN {<<>>}
    ELSE LET shorter == LayoutsOfLen(n - 1)
             rects == RectsOf(Ids[n])
         IN UNION {{Append(ls, r) : r \in {q \in rects :
                        \A k \in DOMAIN ls : RectCells(q) \cap RectCells(ls[k]) = {}}} :
                   ls \in shorter}

InputLayouts == UNION {LayoutsOfLen(n) : n \in 0..MaxRects}

\* ------------------------------------------------------------------ push
\* a push that checks the grid bounds and the other widgets but not the avoid zone
tryPushIgnoringZone(ls, widgetId, dx, dy, avoidZone, cols, maxRows, excludeId) ==
    LET widget == Find(ls, widgetId) IN
    IF widget = Null THEN Null
    ELSE
    LET newX == widget.x + dx
        newY == widget.y + dy
        occupancy == createOccupancyGrid(FilterIds(ls, IdsOf(ls) \ {widgetId, excludeId}),
                                         cols, maxRows, NoId)
    IN
    IF canFitAt(occupancy, newX, newY, widget.w, widget.h)
    THEN [layouts |-> [k \in DOMAIN ls |->
                IF ls[k].i = widgetId THEN [ls[k] EXCEPT !.x = newX, !.y = newY] ELSE ls[k]]]
    ELSE Null

tryPushInDirection(ls, widgetId, dx, dy, avoidZone, cols, maxRows, excludeId) ==
    LET widget == Find(ls, widgetId) IN
    IF widget = Null THEN Null
    ELSE
    LET newX == widget.x + dx
        newY == widget.y + dy
    IN
    IF newX < 0 \/ newX + widget.w > cols \/ newY < 0 \/ newY + widget.h > maxRows THEN Null
    ELSE IF zonesOverlap(Zone(newX, newY, widget.w, widget.h), avoidZone) THEN Null
    ELSE
    LET occupancy == MarkOccupied(
            createOccupancyGrid(FilterIds(ls, IdsOf(ls) \ {widgetId, excludeId}), cols, maxRows, NoId),
            avoidZone.x, avoidZone.y, avoidZone.w, avoidZone.h)
    IN
    IF canFitAt(occupancy, newX, newY, widget.w, widget.h)
    THEN [layouts |-> [k \in DOMAIN ls |->
                IF ls[k].i = widgetId THEN [ls[k] EXCEPT !.x = newX, !.y = newY] ELSE ls[k]]]
    ELSE Null

\* directions that never leave the widget's row
PushSideways(widget, targetW, targetH) ==
    << [dx |-> targetW, dy |-> 0], [dx |-> -widget.w, dy |-> 0] >>

\* the four directions with down tried before right
PushDownFirst(widget, targetW, targetH) ==
    << [dx |-> 0, dy |-> targetH],
       [dx |-> targetW, dy |-> 0],
       [dx |-> -widget.w, dy |-> 0],
       [dx |-> 0, dy |-> -widget.h] >>

\* the four directions tried for one widget, in the code's order
PushDirections(widget, targetW, targetH) ==
    << [dx |-> targetW, dy |-> 0],
       [dx |-> 0, dy |-> targetH],
       [dx |-> -widget.w, dy |-> 0],
       [dx |-> 0, dy |-> -widget.h] >>

\* the inner loop: the first direction that succeeds, or Null
RECURSIVE TryDirections(_, _, _, _, _, _, _)
TryDirections(working, widget, dirs, targetZone, cols, maxRows, excludeId) ==
    IF dirs = <<>> THEN Null
    ELSE
    LET r == tryPushInDirection(working, widget.i, Head(dirs).dx, Head(dirs).dy,
                                targetZone, cols, maxRows, excludeId)
    IN IF r # Null THEN r
       ELSE TryDirections(working, widget, Tail(dirs), targetZone, cols, maxRows, excludeId)

\* a failure that hands back the working copy instead of the input
PushFailureKeepsMoves(ls, working) ==
    [canPush |-> FALSE, newLayouts |-> working, pushedWidgets |-> <<>>]

PushFailure(ls, working) == [canPush |-> FALSE, newLayouts |-> ls, pushedWidgets |-> <<>>]

\* an outer loop that moves the widgets but reports none of them
RECURSIVE PushLoopUnreported(_, _, _, _, _, _, _, _)
PushLoopUnreported(ls, overlapping, working, pushed, targetZone, cols, maxRows, excludeId) ==
    IF overlapping = <<>>
    THEN [canPush |-> TRUE, newLayouts |-> working, pushedWidgets |-> pushed]
    ELSE
    LET widget == Head(overlapping)
        r == TryDirections(working, widget, PushDirections(widget, targetZone.w, targetZone.h),
                           targetZone, cols, maxRows, excludeId)
    IN IF r = Null THEN PushFailure(ls, working)
       ELSE PushLoopUnreported(ls, Tail(overlapping), r.layouts, pushed,
                               targetZone, cols, maxRows, excludeId)

\* the outer loop over the overlapping widgets
RECURSIVE PushLoop(_, _, _, _, _, _, _, _)
PushLoop(ls, overlapping, working, pushed, targetZone, cols, maxRows, excludeId) ==
    IF overlapping = <<>>
    THEN [canPush |-> TRUE, newLayouts |-> working, pushedWidgets |-> pushed]
    ELSE
    LET widget == Head(overlapping)
        r == TryDirections(working, widget, PushDirections(widget, targetZone.w, targetZone.h),
                           targetZone, cols, maxRows, excludeId)
    IN IF r = Null THEN PushFailure(ls, working)
       ELSE PushLoop(ls, Tail(overlapping), r.layouts, Append(pushed, widget.i),
                     targetZone, cols, maxRows, excludeId)

RECURSIVE FilterOverlapping(_, _, _)
FilterOverlapping(ls, zone, excludeId) ==
    IF ls = <<>> THEN <<>>
    ELSE IF Head(ls).i # excludeId /\ zonesOverlap(ZoneOf(Head(ls)), zone)
         THEN <<Head(ls)>> \o FilterOverlapping(Tail(ls), zone, excludeId)
         ELSE FilterOverlapping(Tail(ls), zone, excludeId)

calculatePush(ls, targetX, targetY, targetW, targetH, cols, maxRows, excludeId) ==
    LET targetZone == Zone(targetX, targetY, targetW, targetH)
        overlappingWidgets == FilterOverlapping(ls, targetZone, excludeId)
    IN
    IF Len(overlappingWidgets) = 0
    THEN [canPush |-> TRUE, newLayouts |-> ls, pushedWidgets |-> <<>>]
    ELSE PushLoop(ls, overlappingWidgets, ls, <<>>, targetZone, cols, maxRows, excludeId)

\* ---------------------------------------------------------------- sort
\* Array.prototype.sort: stable, s[j] before s[k] when the comparator's value cmp[j, k] < 0
Sort(s, cmp) ==
    LET Rank(k) == 1 + Cardinality({j \in DOMAIN s :
                        cmp[j, k] < 0 \/ (cmp[j, k] = 0 /\ j < k)})
    IN [r \in DOMAIN s |-> s[CHOOSE k \in DOMAIN s : Rank(k) = r]]

ByAreaDesc(a, b) == (b.w * b.h) - (a.w * a.h)
ByPosition(a, b) == IF a.y # b.y THEN a.y - b.y ELSE a.x - b.x

SortByAreaDesc(s) == Sort(s, [j \in DOMAIN s, k \in DOMAIN s |-> ByAreaDesc(s[j], s[k])])
SortByPosition(s) == Sort(s, [j \in DOMAIN s, k \in DOMAIN s |-> ByPosition(s[j], s[k])])

\* --------------------------------------------------------------- resize
DefaultMinW == 2
DefaultMinH == 2

\* a min-size lookup that lets every widget shrink to a single cell
MinSizeIgnored(widgetMinSizes, id) == [minW |-> 1, minH |-> 1]

\* widgetMinSizes[id] || { minW: 2, minH: 2 }
MinSizeOf(widgetMinSizes, id) ==
    IF id \in DOMAIN widgetMinSizes THEN widgetMinSizes[id]
    ELSE [minW |-> DefaultMinW, minH |-> DefaultMinH]

\* a failure that hands back the working copy instead of the input
ResizeFailureKeepsMoves(ls, working) ==
    [canResize |-> FALSE, newLayouts |-> working, movedWidgets |-> <<>>, shrunkWidgets |-> <<>>]

ResizeFailure(ls, working) ==
    [canResize |-> FALSE, newLayouts |-> ls, movedWidgets |-> <<>>, shrunkWidgets |-> <<>>]

\* Phase 1's occupancy without the resizing widget's new extent marked
ResizeOccupancyUnmarked(working, widgetId, resizingId, newBounds, cols, maxRows) ==
    createOccupancyGrid(FilterIds(working, IdsOf(working) \ {widgetId, resizingId}),
                        cols, maxRows, NoId)

\* Phase 1's occupancy for one widget: every other widget but the resizing one, plus
\* the resizing widget's new extent
ResizeOccupancy(working, widgetId, resizingId, newBounds, cols, maxRows) ==
    MarkOccupied(
        createOccupancyGrid(FilterIds(working, IdsOf(working) \ {widgetId, resizingId}),
                            cols, maxRows, NoId),
        newBounds.x, newBounds.y, newBounds.w, newBounds.h)

\* a Phase 1 that leaves the widgets it moved among the still affected ones
RECURSIVE ResizePhase1KeepsAffected(_, _, _, _, _, _, _, _)
ResizePhase1KeepsAffected(todo, working, moved, still, resizingId, newBounds, cols, maxRows) ==
    IF todo = <<>> THEN [working |-> working, moved |-> moved, still |-> still]
    ELSE
    LET widget == Head(todo)
        occupancy == ResizeOccupancy(working, widget.i, resizingId, newBounds, cols, maxRows)
        emptySpot == findFirstFitPosition(occupancy, widget.w, widget.h)
    IN
    IF emptySpot # Null
    THEN ResizePhase1KeepsAffected(Tail(todo),
            [k \in DOMAIN working |->
                IF working[k].i = widget.i
                THEN [working[k] EXCEPT !.x = emptySpot.x, !.y = emptySpot.y] ELSE working[k]],
            Append(moved, widget.i), still, resizingId, newBounds, cols, maxRows)
    ELSE ResizePhase1KeepsAffected(Tail(todo), working, moved, still, resizingId, newBounds,
                                   cols, maxRows)

\* Phase 1: move each affected widget to the first free spot, the new extent occupied
RECURSIVE ResizePhase1(_, _, _, _, _, _, _, _)
ResizePhase1(todo, working, moved, still, resizingId, newBounds, cols, maxRows) ==
    IF todo = <<>> THEN [working |-> working, moved |-> moved, still |-> still]
    ELSE
    LET widget == Head(todo)
        occupancy == ResizeOccupancy(working, widget.i, resizingId, newBounds, cols, maxRows)
        emptySpot == findFirstFitPosition(occupancy, widget.w, widget.h)
    IN
    IF emptySpot # Null
    THEN ResizePhase1(Tail(todo),
            [k \in DOMAIN working |->
                IF working[k].i = widget.i
                THEN [working[k] EXCEPT !.x = emptySpot.x, !.y = emptySpot.y] ELSE working[k]],
            Append(moved, widget.i),
            FilterIds(still, IdsOf(still) \ {widget.i}),
            resizingId, newBounds, cols, maxRows)
    ELSE ResizePhase1(Tail(todo), working, moved, still, resizingId, newBounds, cols, maxRows)

\* one widget of Phase 2: the shrunk rect, or Null when no side can give way
ShrinkOne(currentWidget, newBounds, minSizes) ==
    LET overlapRight == Max(0, (newBounds.x + newBounds.w) - currentWidget.x)
        overlapBottom == Max(0, (newBounds.y + newBounds.h) - currentWidget.y)
        overlapLeft == Max(0, (currentWidget.x + currentWidget.w) - newBounds.x)
        overlapTop == Max(0, (currentWidget.y + currentWidget.h) - newBounds.y)
    IN
    IF overlapRight > 0 /\ currentWidget.w - overlapRight >= minSizes.minW
    THEN [currentWidget EXCEPT !.x = @ + overlapRight, !.w = @ - overlapRight]
    ELSE IF overlapBottom > 0 /\ currentWidget.h - overlapBottom >= minSizes.minH
    THEN [currentWidget EXCEPT !.y = @ + overlapBottom, !.h = @ - overlapBottom]
    ELSE IF overlapLeft > 0 /\ currentWidget.w - overlapLeft >= minSizes.minW
    THEN [currentWidget EXCEPT !.w = @ - overlapLeft]
    ELSE IF overlapTop > 0 /\ currentWidget.h - overlapTop >= minSizes.minH
    THEN [currentWidget EXCEPT !.h = @ - overlapTop]
    ELSE Null

\* Phase 2: shrink the widgets still affected, largest first
RECURSIVE ResizePhase2(_, _, _, _, _, _)
ResizePhase2(ls, todo, working, shrunk, newBounds, widgetMinSizes) ==
    IF todo = <<>> THEN [ok |-> TRUE, working |-> working, shrunk |-> shrunk]
    ELSE
    LET widget == Head(todo)
        currentWidget == Find(working, widget.i)
    IN
    IF currentWidget = Null
    THEN ResizePhase2(ls, Tail(todo), working, shrunk, newBounds, widgetMinSizes)
    ELSE
    LET s == ShrinkOne(currentWidget, newBounds, MinSizeOf(widgetMinSizes, widget.i)) IN
    IF s = Null THEN [ok |-> FALSE, working |-> working, shrunk |-> shrunk]
    ELSE ResizePhase2(ls, Tail(todo),
            [k \in DOMAIN working |-> IF working[k].i = widget.i THEN s ELSE working[k]],
            Append(shrunk, widget.i), newBounds, widgetMinSizes)

ApplyResize(ls, resizingId, newX, newY, newW, newH) ==
    [k \in DOMAIN ls |->
        IF ls[k].i = resizingId
        THEN [ls[k] EXCEPT !.x = newX, !.y = newY, !.w = newW, !.h = newH] ELSE ls[k]]

calculateResizeSpace(ls, resizingId, newX, newY, newW, newH, cols, maxRows, widgetMinSizes) ==
    LET newBounds == Zone(newX, newY, newW, newH) IN
    IF Find(ls, resizingId) = Null THEN ResizeFailure(ls, ls)
    ELSE IF newBounds.x < 0 \/ newBounds.y < 0 \/ newBounds.x + newBounds.w > cols
            \/ newBounds.y + newBounds.h > maxRows
    THEN ResizeFailure(ls, ls)
    ELSE
    LET affectedWidgets == FilterOverlapping(ls, newBounds, resizingId) IN
    IF Len(affectedWidgets) = 0
    THEN [canResize |-> TRUE, newLayouts |-> ApplyResize(ls, resizingId, newX, newY, newW, newH),
          movedWidgets |-> <<>>, shrunkWidgets |-> <<>>]
    ELSE
    LET p1 == ResizePhase1(affectedWidgets, ls, <<>>, affectedWidgets, resizingId, newBounds,
                           cols, maxRows)
        p2 == ResizePhase2(ls, SortByAreaDesc(p1.still), p1.working, <<>>, newBounds,
                           widgetMinSizes)
    IN
    IF ~p2.ok THEN ResizeFailure(ls, p2.working)
    ELSE [canResize |-> TRUE,
          newLayouts |-> ApplyResize(p2.working, resizingId, newX, newY, newW, newH),
          movedWidgets |-> p1.moved, shrunkWidgets |-> p2.shrunk]

\* ------------------------------------------------------ nearest position
\* one ring: the offsets on the perimeter at this distance whose position is inside the
\* grid and free, and the one the dy-then-dx loops reach first
RingFits(occ, targetX, targetY, w, h, cols, maxRows, distance) ==
    {d \in ((-distance)..distance) \X ((-distance)..distance) :
        LET x == targetX + d[2]
            y == targetY + d[1]
        IN /\ (Abs(d[2]) = distance \/ Abs(d[1]) = distance)
           /\ ~(x < 0 \/ y < 0 \/ x + w > cols \/ y + h > maxRows)
           /\ canFitAt(occ, x, y, w, h)}

FirstInScan(fits) ==
    CHOOSE d \in fits : \A e \in fits : d[1] < e[1] \/ (d[1] = e[1] /\ d[2] <= e[2])

\* a ring loop that looks at every second ring only
RECURSIVE RingScanSkipping(_, _, _, _, _, _, _, _)
RingScanSkipping(occ, targetX, targetY, w, h, cols, maxRows, distance) ==
    IF distance >= Max(cols, maxRows) THEN Null
    ELSE
    LET fits == RingFits(occ, targetX, targetY, w, h, cols, maxRows, distance) IN
    IF fits # {}
    THEN [x |-> targetX + FirstInScan(fits)[2], y |-> targetY + FirstInScan(fits)[1]]
    ELSE RingScanSkipping(occ, targetX, targetY, w, h, cols, maxRows, distance + 2)

\* the ring loop: distance 1 .. max(cols, maxRows) - 1, the first ring with a fit
RECURSIVE RingScan(_, _, _, _, _, _, _, _)
RingScan(occ, targetX, targetY, w, h, cols, maxRows, distance) ==
    IF distance >= Max(cols, maxRows) THEN Null
    ELSE
    LET fits == RingFits(occ, targetX, targetY, w, h, cols, maxRows, distance) IN
    IF fits # {}
    THEN [x |-> targetX + FirstInScan(fits)[2], y |-> targetY + FirstInScan(fits)[1]]
    ELSE RingScan(occ, targetX, targetY, w, h, cols, maxRows, distance + 1)

findBestPositionNearExported(occ, targetX, targetY, w, h, cols, maxRows) ==
    IF canFitAt(occ, targetX, targetY, w, h) THEN [x |-> targetX, y |-> targetY]
    ELSE
    LET ring == RingScan(occ, targetX, targetY, w, h, cols, maxRows, 1) IN
    IF ring # Null THEN ring ELSE findFirstFitPosition(occ, w, h)

findBestPositionNear(occ, targetX, targetY, w, h, cols, maxRows) ==
    IF canFitAt(occ, targetX, targetY, w, h) THEN [x |-> targetX, y |-> targetY]
    ELSE
    LET ring == RingScan(occ, targetX, targetY, w, h, cols, maxRows, 1) IN
    IF ring # Null THEN ring ELSE findFirstFitPosition(occ, w, h)

\* ------------------------------------------------------ viewport adjust
\* a clamp that sends every rect to the origin
clampToOrigin(x, y, w, h, cols, maxRows) == [x |-> 0, y |-> 0]

clampToViewport(x, y, w, h, cols, maxRows) ==
    LET x0 == IF x < 0 THEN 0 ELSE x
        y0 == IF y < 0 THEN 0 ELSE y
    IN [x |-> IF x0 + w > cols THEN Max(0, cols - w) ELSE x0,
        y |-> IF y0 + h > maxRows THEN Max(0, maxRows - h) ELSE y0]

\* where one layout of the sorted list ends up, given what is placed so far
AdjustPlace(occ, layout, cols, maxRows) ==
    LET c == clampToViewport(layout.x, layout.y, layout.w, layout.h, cols, maxRows) IN
    IF canFitAt(occ, c.x, c.y, layout.w, layout.h) THEN [placed |-> TRUE, x |-> c.x, y |-> c.y]
    ELSE
    LET newPos == findBestPositionNearExported(occ, c.x, c.y, layout.w, layout.h, cols, maxRows) IN
    IF newPos # Null THEN [placed |-> TRUE, x |-> newPos.x, y |-> newPos.y]
    ELSE
    LET anyPos == findFirstFitPosition(occ, layout.w, layout.h) IN
    IF anyPos # Null THEN [placed |-> TRUE, x |-> anyPos.x, y |-> anyPos.y]
    ELSE [placed |-> FALSE, x |-> c.x, y |-> c.y]

RECURSIVE AdjustLoop(_, _, _, _, _)
AdjustLoop(sorted, adjusted, occ, cols, maxRows) ==
    IF sorted = <<>> THEN adjusted
    ELSE
    LET layout == Head(sorted)
        p == AdjustPlace(occ, layout, cols, maxRows)
    IN AdjustLoop(Tail(sorted),
                  Append(adjusted, [layout EXCEPT !.x = p.x, !.y = p.y]),
                  IF p.placed THEN MarkOccupied(occ, p.x, p.y, layout.w, layout.h) ELSE occ,
                  cols, maxRows)

adjustLayoutsToViewport(ls, cols, maxRows) ==
    LET adjusted == AdjustLoop(SortByPosition(ls), <<>>,
                               createOccupancyGrid(<<>>, cols, maxRows, NoId), cols, maxRows)
    IN [k \in DOMAIN adjusted |->
            LET c == clampToViewport(adjusted[k].x, adjusted[k].y, adjusted[k].w, adjusted[k].h,
                                     cols, maxRows)
            IN [adjusted[k] EXCEPT !.x = c.x, !.y = c.y]]

\* ------------------------------------------------------------------ swap
\* the swap's own clamp of one coordinate: pulled back from the far edge, then to 0
\* a clamp that pulls every coordinate back by one cell when it can
SwapClampShifted(v, size, limit) ==
    LET a == IF v + size >= limit THEN limit - size - 1 ELSE v IN IF a < 0 THEN 0 ELSE a

SwapClamp(v, size, limit) ==
    LET a == IF v + size > limit THEN limit - size ELSE v IN IF a < 0 THEN 0 ELSE a

\* a swap occupancy that forgets every other widget
SwapOccupancyEmpty(ls, sourceId, targetLayout, cols, maxRows) ==
    createOccupancyGrid(<<>>, cols, maxRows, NoId)

\* the occupancy without the source and with the target's cells cleared
SwapOccupancy(ls, sourceId, targetLayout, cols, maxRows) ==
    ClearOccupied(createOccupancyGrid(ls, cols, maxRows, sourceId),
                  targetLayout.x, targetLayout.y, targetLayout.w, targetLayout.h)

\* positions that leave source and target where they are
SwapPositionsKept(ls, sourceLayout, targetLayout, gridCols, gridRows) ==
    [sx |-> sourceLayout.x, sy |-> sourceLayout.y, tx |-> targetLayout.x, ty |-> targetLayout.y]

\* the new positions of source and target, or Null
SwapPositions(ls, sourceLayout, targetLayout, gridCols, gridRows) ==
    LET occupancy == SwapOccupancy(ls, sourceLayout.i, targetLayout, gridCols, gridRows)
        sourceNewX == SwapClamp(targetLayout.x, sourceLayout.w, gridCols)
        sourceNewY == SwapClamp(targetLayout.y, sourceLayout.h, gridRows)
        targetNewX == SwapClamp(sourceLayout.x, targetLayout.w, gridCols)
        targetNewY == SwapClamp(sourceLayout.y, targetLayout.h, gridRows)
        sourceNewZone == Zone(sourceNewX, sourceNewY, sourceLayout.w, sourceLayout.h)
        targetNewZone == Zone(targetNewX, targetNewY, targetLayout.w, targetLayout.h)
        Both(sx, sy, tx, ty) == [sx |-> sx, sy |-> sy, tx |-> tx, ty |-> ty]
    IN
    IF zonesOverlap(sourceNewZone, targetNewZone)
    THEN
        IF canFitAt(occupancy, sourceNewX, sourceNewY, sourceLayout.w, sourceLayout.h)
        THEN
            LET tempOccupancy == MarkOccupied(occupancy, sourceNewX, sourceNewY,
                                              sourceLayout.w, sourceLayout.h)
                targetPos == findBestPositionNear(tempOccupancy, sourceLayout.x, sourceLayout.y,
                                                  targetLayout.w, targetLayout.h, gridCols, gridRows)
            IN IF targetPos # Null THEN Both(sourceNewX, sourceNewY, targetPos.x, targetPos.y)
               ELSE Null
        ELSE IF canFitAt(occupancy, targetNewX, targetNewY, targetLayout.w, targetLayout.h)
        THEN
            LET tempOccupancy == MarkOccupied(occupancy, targetNewX, targetNewY,
                                              targetLayout.w, targetLayout.h)
                sourcePos == findBestPositionNear(tempOccupancy, targetLayout.x, targetLayout.y,
                                                  sourceLayout.w, sourceLayout.h, gridCols, gridRows)
            IN IF sourcePos # Null THEN Both(sourcePos.x, sourcePos.y, targetNewX, targetNewY)
               ELSE Null
        ELSE Null
    ELSE
        LET sourceCanFit == canFitAt(occupancy, sourceNewX, sourceNewY,
                                     sourceLayout.w, sourceLayout.h)
            occupancyWithSource == MarkOccupied(occupancy, sourceNewX, sourceNewY,
                                                sourceLayout.w, sourceLayout.h)
            targetCanFit == canFitAt(occupancyWithSource, targetNewX, targetNewY,
                                     targetLayout.w, targetLayout.h)
        IN
        IF sourceCanFit /\ targetCanFit THEN Both(sourceNewX, sourceNewY, targetNewX, targetNewY)
        ELSE
        LET sourcePos == IF sourceCanFit THEN [x |-> sourceNewX, y |-> sourceNewY]
                         ELSE findBestPositionNear(occupancy, targetLayout.x, targetLayout.y,
                                                   sourceLayout.w, sourceLayout.h, gridCols, gridRows)
        IN
        IF sourcePos = Null THEN Null
        ELSE
        LET newOccupancy == MarkOccupied(occupancy, sourcePos.x, sourcePos.y,
                                         sourceLayout.w, sourceLayout.h)
        IN
        IF canFitAt(newOccupancy, targetNewX, targetNewY, targetLayout.w, targetLayout.h)
        THEN Both(sourcePos.x, sourcePos.y, targetNewX, targetNewY)
        ELSE
        LET targetPos == findBestPositionNear(newOccupancy, sourceLayout.x, sourceLayout.y,
                                              targetLayout.w, targetLayout.h, gridCols, gridRows)
        IN IF targetPos # Null THEN Both(sourcePos.x, sourcePos.y, targetPos.x, targetPos.y)
           ELSE Null

calculateSwap(ls, sourceId, targetId, cols, maxRows) ==
    LET sourceLayout == Find(ls, sourceId)
        targetLayout == Find(ls, targetId)
    IN
    IF sourceLayout = Null \/ targetLayout = Null THEN Null
    ELSE
    LET pos == SwapPositions(ls, sourceLayout, targetLayout, cols, maxRows) IN
    IF pos = Null THEN Null
    ELSE
    LET newLayouts == [k \in DOMAIN ls |->
            IF ls[k].i = sourceId THEN [ls[k] EXCEPT !.x = pos.sx, !.y = pos.sy]
            ELSE IF ls[k].i = targetId THEN [ls[k] EXCEPT !.x = pos.tx, !.y = pos.ty]
            ELSE ls[k]]
    IN [layouts |-> adjustLayoutsToViewport(newLayouts, cols, maxRows)]

\* the positions calculateSwapPreview shows for source and target, or Null
PreviewPositions(ls, sourceLayout, targetLayout, cols, maxRows) ==
    LET occupancy == SwapOccupancy(ls, sourceLayout.i, targetLayout, cols, maxRows)
        sourceNewX == SwapClamp(targetLayout.x, sourceLayout.w, cols)
        sourceNewY == SwapClamp(targetLayout.y, sourceLayout.h, maxRows)
        targetNewX == SwapClamp(sourceLayout.x, targetLayout.w, cols)
        targetNewY == SwapClamp(sourceLayout.y, targetLayout.h, maxRows)
        sourceNewZone == Zone(sourceNewX, sourceNewY, sourceLayout.w, sourceLayout.h)
        targetNewZone == Zone(targetNewX, targetNewY, targetLayout.w, targetLayout.h)
        Both(sx, sy, tx, ty) == [sx |-> sx, sy |-> sy, tx |-> tx, ty |-> ty]
    IN
    IF zonesOverlap(sourceNewZone, targetNewZone)
    THEN
        LET tempOccupancy == MarkOccupied(occupancy, sourceNewX, sourceNewY,
                                          sourceLayout.w, sourceLayout.h)
            targetPos == findBestPositionNearExported(tempOccupancy, sourceLayout.x,
                             sourceLayout.y, targetLayout.w, targetLayout.h, cols, maxRows)
        IN IF targetPos # Null THEN Both(sourceNewX, sourceNewY, targetPos.x, targetPos.y)
           ELSE Null
    ELSE
        LET sourceCanFit == canFitAt(occupancy, sourceNewX, sourceNewY,
                                     sourceLayout.w, sourceLayout.h)
            occupancyWithSource == MarkOccupied(occupancy, sourceNewX, sourceNewY,
                                                sourceLayout.w, sourceLayout.h)
            targetCanFit == canFitAt(occupancyWithSource, targetNewX, targetNewY,
                                     targetLayout.w, targetLayout.h)
        IN
        IF sourceCanFit /\ targetCanFit THEN Both(sourceNewX, sourceNewY, targetNewX, targetNewY)
        ELSE
        LET sourcePos == IF sourceCanFit THEN [x |-> sourceNewX, y |-> sourceNewY]
                         ELSE findBestPositionNearExported(occupancy, targetLayout.x,
                                  targetLayout.y, sourceLayout.w, sourceLayout.h, cols, maxRows)
        IN
        IF sourcePos = Null THEN Null
        ELSE
        LET newOccupancy == MarkOccupied(occupancy, sourcePos.x, sourcePos.y,
                                         sourceLayout.w, sourceLayout.h)
        IN
        IF canFitAt(newOccupancy, targetNewX, targetNewY, targetLayout.w, targetLayout.h)
        THEN Both(sourcePos.x, sourcePos.y, targetNewX, targetNewY)
        ELSE
        LET targetPos == findBestPositionNearExported(newOccupancy, sourceLayout.x,
                             sourceLayout.y, targetLayout.w, targetLayout.h, cols, maxRows)
        IN IF targetPos # Null THEN Both(sourcePos.x, sourcePos.y, targetPos.x, targetPos.y)
           ELSE Null

calculateSwapPreview(ls, sourceId, targetId, cols, maxRows) ==
    LET sourceLayout == Find(ls, sourceId)
        targetLayout == Find(ls, targetId)
    IN
    IF sourceLayout = Null \/ targetLayout = Null THEN Null
    ELSE
    LET pos == PreviewPositions(ls, sourceLayout, targetLayout, cols, maxRows) IN
    IF pos = Null THEN Null
    ELSE IF pos.sx < 0 \/ pos.sy < 0 \/ pos.sx + sourceLayout.w > cols
            \/ pos.sy + sourceLayout.h > maxRows
    THEN Null
    ELSE IF pos.tx < 0 \/ pos.ty < 0 \/ pos.tx + targetLayout.w > cols
            \/ pos.ty + targetLayout.h > maxRows
    THEN Null
    ELSE [sourceNewPos |-> Zone(pos.sx, pos.sy, sourceLayout.w, sourceLayout.h),
          targetNewPos |-> Zone(pos.tx, pos.ty, targetLayout.w, targetLayout.h)]

\* ------------------------------------------------------------ group swap
findOverlappedWidgets(ls, sourceId, targetX, targetY, sourceW, sourceH) ==
    FilterOverlapping(ls, Zone(targetX, targetY, sourceW, sourceH), sourceId)

RECURSIVE ClearAll(_, _)
ClearAll(occ, widgets) ==
    IF widgets = <<>> THEN occ
    ELSE ClearAll(ClearOccupied(occ, Head(widgets).x, Head(widgets).y,
                                Head(widgets).w, Head(widgets).h), Tail(widgets))

\* a group-swap occupancy with the displaced widgets cleared but the source's new
\* position left unmarked
MultiSwapOccupancyUnmarked(ls, sourceId, overlappedWidgets, sourceNewZone, cols, maxRows) ==
    ClearAll(createOccupancyGrid(ls, cols, maxRows, sourceId), overlappedWidgets)

\* the occupancy the displaced widgets are placed in: everything but the source and the
\* displaced widgets, plus the source's new position
MultiSwapOccupancy(ls, sourceId, overlappedWidgets, sourceNewZone, cols, maxRows) ==
    MarkOccupied(ClearAll(createOccupancyGrid(ls, cols, maxRows, sourceId), overlappedWidgets),
                 sourceNewZone.x, sourceNewZone.y, sourceNewZone.w, sourceNewZone.h)

\* the loop over the displaced widgets, largest first: the list of new positions, or Null
RECURSIVE PlaceDisplaced(_, _, _, _, _, _)
PlaceDisplaced(sortedWidgets, workingOccupancy, placed, sourceLayout, cols, maxRows) ==
    IF sortedWidgets = <<>> THEN [positions |-> placed]
    ELSE
    LET widget == Head(sortedWidgets)
        near == findBestPositionNearExported(workingOccupancy, sourceLayout.x, sourceLayout.y,
                                             widget.w, widget.h, cols, maxRows)
        newPos == IF near # Null THEN near
                  ELSE findFirstFitPosition(workingOccupancy, widget.w, widget.h)
    IN
    IF newPos = Null THEN Null
    ELSE IF newPos.x < 0 \/ newPos.y < 0 \/ newPos.x + widget.w > cols
            \/ newPos.y + widget.h > maxRows
    THEN Null
    ELSE PlaceDisplaced(Tail(sortedWidgets),
            MarkOccupied(workingOccupancy, newPos.x, newPos.y, widget.w, widget.h),
            Append(placed, [id |-> widget.i,
                            pos |-> Zone(newPos.x, newPos.y, widget.w, widget.h)]),
            sourceLayout, cols, maxRows)

calculateMultiSwapPreview(ls, sourceId, targetX, targetY, cols, maxRows) ==
    LET sourceLayout == Find(ls, sourceId) IN
    IF sourceLayout = Null THEN Null
    ELSE
    LET sourceNewX == SwapClamp(targetX, sourceLayout.w, cols)
        sourceNewY == SwapClamp(targetY, sourceLayout.h, maxRows)
        overlappedWidgets == findOverlappedWidgets(ls, sourceId, sourceNewX, sourceNewY,
                                                   sourceLayout.w, sourceLayout.h)
        sourceNewZone == Zone(sourceNewX, sourceNewY, sourceLayout.w, sourceLayout.h)
    IN
    IF Len(overlappedWidgets) = 0 THEN Null
    ELSE
    LET occupancy == MultiSwapOccupancy(ls, sourceId, overlappedWidgets, sourceNewZone,
                                        cols, maxRows)
        placed == PlaceDisplaced(SortByAreaDesc(overlappedWidgets), occupancy, <<>>,
                                 sourceLayout, cols, maxRows)
    IN
    IF placed = Null THEN Null
    ELSE IF sourceNewX < 0 \/ sourceNewY < 0 \/ sourceNewX + sourceLayout.w > cols
            \/ sourceNewY + sourceLayout.h > maxRows
    THEN Null
    ELSE IF \E k \in DOMAIN placed.positions :
                LET t == placed.positions[k].pos IN
                t.x < 0 \/ t.y < 0 \/ t.x + t.w > cols \/ t.y + t.h > maxRows
    THEN Null
    ELSE [sourceId |-> sourceId,
          targetIds |-> [k \in DOMAIN overlappedWidgets |-> overlappedWidgets[k].i],
          sourceNewPos |-> sourceNewZone,
          targetNewPositions |-> placed.positions]

\* newPositions.get(id): the source's entry is set first, a target's entry later
NewPositionOf(preview, id) ==
    LET hits == {k \in DOMAIN preview.targetNewPositions :
                    preview.targetNewPositions[k].id = id}
    IN IF hits # {}
       THEN preview.targetNewPositions[CHOOSE k \in hits : \A j \in hits : j <= k].pos
       ELSE IF id = preview.sourceId THEN preview.sourceNewPos
       ELSE Null

calculateMultiSwap(ls, multiSwapPreview, cols, maxRows) ==
    LET newLayouts == [k \in DOMAIN ls |->
            LET newPos == NewPositionOf(multiSwapPreview, ls[k].i) IN
            IF newPos # Null THEN [ls[k] EXCEPT !.x = newPos.x, !.y = newPos.y] ELSE ls[k]]
    IN adjustLayoutsToViewport(newLayouts, cols, maxRows)

\* ---------------------------------------------------------------- repack
\* b.w - a.w || b.h - a.h
ByWidthDesc(a, b) == IF b.w - a.w # 0 THEN b.w - a.w ELSE b.h - a.h
\* b.h - a.h || b.w - a.w
ByHeightDesc(a, b) == IF b.h - a.h # 0 THEN b.h - a.h ELSE b.w - a.w

FillsRow(a, cols) == IF a.w > 0 /\ cols % a.w = 0 THEN 1 ELSE 0

ByRowFill(a, b, cols) ==
    IF FillsRow(a, cols) # FillsRow(b, cols) THEN FillsRow(b, cols) - FillsRow(a, cols)
    ELSE (b.w * b.h) - (a.w * a.h)

SortByWidthDesc(s) == Sort(s, [j \in DOMAIN s, k \in DOMAIN s |-> ByWidthDesc(s[j], s[k])])
SortByHeightDesc(s) == Sort(s, [j \in DOMAIN s, k \in DOMAIN s |-> ByHeightDesc(s[j], s[k])])
SortByRowFill(s, cols) ==
    Sort(s, [j \in DOMAIN s, k \in DOMAIN s |-> ByRowFill(s[j], s[k], cols)])

\* if (!placed) packed.push(widget): the widget keeps its position, unmarked
Unplaced(packed, widget) == Append(packed, widget)

\* the placement loop shared by both repack functions: each widget of the given order
\* goes to the first position that fits in an occupancy that starts empty
RECURSIVE PackInOrder(_, _, _)
PackInOrder(sorted, packed, occupancy) ==
    IF sorted = <<>> THEN [packed |-> packed, occupancy |-> occupancy]
    ELSE
    LET widget == Head(sorted)
        pos == findFirstFitPosition(occupancy, widget.w, widget.h)
    IN
    IF pos # Null
    THEN PackInOrder(Tail(sorted),
                     Append(packed, [widget EXCEPT !.x = pos.x, !.y = pos.y]),
                     MarkOccupied(occupancy, pos.x, pos.y, widget.w, widget.h))
    ELSE PackInOrder(Tail(sorted), Unplaced(packed, widget), occupancy)

repackWidgets(ls, cols, maxRows) ==
    IF Len(ls) = 0 THEN ls
    ELSE PackInOrder(SortByPosition(ls), <<>>,
                     createOccupancyGrid(<<>>, cols, maxRows, NoId)).packed

Strategies(ls, cols) ==
    << SortByAreaDesc(ls), SortByWidthDesc(ls), SortByHeightDesc(ls),
       SortByPosition(ls), SortByRowFill(ls, cols) >>

PackingMaxY(packed) ==
    IF Len(packed) > 0
    THEN CHOOSE m \in {packed[k].y + packed[k].h : k \in DOMAIN packed} :
            \A k \in DOMAIN packed : packed[k].y + packed[k].h <= m
    ELSE 0

EmptySpaceAtTop(occupancy, maxY, cols, maxRows) ==
    Cardinality({c \in (0..(Min(maxY, maxRows) - 1)) \X (0..(cols - 1)) :
                    c \notin occupancy.grid})

\* the loop over the strategies; hasBest is false while bestMaxY is still Infinity
RECURSIVE BestPacking(_, _, _, _, _, _)
BestPacking(strategies, best, hasBest, ls, cols, maxRows) ==
    IF strategies = <<>> THEN best.packing
    ELSE
    LET run == PackInOrder(Head(strategies), <<>>,
                           createOccupancyGrid(<<>>, cols, maxRows, NoId))
        maxY == PackingMaxY(run.packed)
        emptySpaceAtTop == EmptySpaceAtTop(run.occupancy, maxY, cols, maxRows)
        better == \/ ~hasBest
                  \/ maxY < best.maxY
                  \/ (maxY = best.maxY /\ emptySpaceAtTop > best.emptySpaceAtTop)
    IN
    IF better
    THEN BestPacking(Tail(strategies),
                     [packing |-> run.packed, maxY |-> maxY,
                      emptySpaceAtTop |-> emptySpaceAtTop],
                     TRUE, ls, cols, maxRows)
    ELSE BestPacking(Tail(strategies), best, hasBest, ls, cols, maxRows)

repackWidgetsOptimal(ls, cols, maxRows) ==
    IF Len(ls) = 0 THEN ls
    ELSE BestPacking(Strategies(ls, cols),
                     [packing |-> ls, maxY |-> 0, emptySpaceAtTop |-> -1],
                     FALSE, ls, cols, maxRows)

\* ----------------------------------------------------------- auto-adjust
maxIterations == 200

AutoFailure(ls) ==
    [canAdd |-> FALSE, adjustedLayouts |-> ls, newWidgetPosition |-> Null,
     shrunkWidgets |-> <<>>]

\* a success that reports every widget of the layout as shrunk
AutoSuccessAllShrunk(adjusted, position, shrunk) ==
    [canAdd |-> TRUE, adjustedLayouts |-> adjusted, newWidgetPosition |-> position,
     shrunkWidgets |-> [k \in DOMAIN adjusted |-> adjusted[k].i]]

AutoSuccess(adjusted, position, shrunk) ==
    [canAdd |-> TRUE, adjustedLayouts |-> adjusted, newWidgetPosition |-> position,
     shrunkWidgets |-> shrunk]

\* shrunkWidgetIds.add(id): a set that keeps insertion order
AddShrunk(shrunk, id) ==
    IF \E k \in DOMAIN shrunk : shrunk[k] = id THEN shrunk ELSE Append(shrunk, id)

RECURSIVE AddAllShrunk(_, _)
AddAllShrunk(shrunk, ls) ==
    IF ls = <<>> THEN shrunk ELSE AddAllShrunk(AddShrunk(shrunk, Head(ls).i), Tail(ls))

RECURSIVE MinPossibleUsage(_, _)
MinPossibleUsage(ls, widgetMinSizes) ==
    IF ls = <<>> THEN 0
    ELSE MinSizeOf(widgetMinSizes, Head(ls).i).minW * MinSizeOf(widgetMinSizes, Head(ls).i).minH
         + MinPossibleUsage(Tail(ls), widgetMinSizes)

\* the scan for the widget to shrink: width is looked at before height, and a later
\* entry replaces the candidate only with a strictly greater priority
RECURSIVE BestCandidate(_, _, _)
BestCandidate(ls, bestCandidate, widgetMinSizes) ==
    IF ls = <<>> THEN bestCandidate
    ELSE
    LET layout == Head(ls)
        minSize == MinSizeOf(widgetMinSizes, layout.i)
        excessW == layout.w - minSize.minW
        excessH == layout.h - minSize.minH
        currentSize == layout.w * layout.h
        priority == currentSize + (excessW + excessH)
        Beats(best) == best = Null \/ priority > best.excessSpace + best.currentSize
        Cand(type) == [id |-> layout.i, shrinkType |-> type,
                       excessSpace |-> excessW + excessH, currentSize |-> currentSize]
        afterW == IF excessW > 0 /\ Beats(bestCandidate) THEN Cand("w") ELSE bestCandidate
        afterH == IF excessH > 0 /\ Beats(afterW) THEN Cand("h") ELSE afterW
    IN BestCandidate(Tail(ls), afterH, widgetMinSizes)

\* a shrink that takes one unit off both dimensions of the candidate
ShrinkBothByOne(ls, bestCandidate) ==
    [k \in DOMAIN ls |->
        IF ls[k].i = bestCandidate.id THEN [ls[k] EXCEPT !.w = @ - 1, !.h = @ - 1] ELSE ls[k]]

ShrinkByOne(ls, bestCandidate) ==
    [k \in DOMAIN ls |->
        IF ls[k].i = bestCandidate.id
        THEN IF bestCandidate.shrinkType = "w" THEN [ls[k] EXCEPT !.w = @ - 1]
             ELSE [ls[k] EXCEPT !.h = @ - 1]
        ELSE ls[k]]

\* Phase 4: every widget at its minimum size, one optimal repack
AutoPhase4(ls, workingLayouts, shrunk, newWidgetW, newWidgetH, cols, maxRows, widgetMinSizes) ==
    LET minimumLayouts == [k \in DOMAIN workingLayouts |->
            [workingLayouts[k] EXCEPT
                !.w = MinSizeOf(widgetMinSizes, workingLayouts[k].i).minW,
                !.h = MinSizeOf(widgetMinSizes, workingLayouts[k].i).minH]]
        shrunkWidgetIds == AddAllShrunk(shrunk, workingLayouts)
        minPackedLayouts == repackWidgetsOptimal(minimumLayouts, cols, maxRows)
        minPosition == findFirstFitPosition(
                           createOccupancyGrid(minPackedLayouts, cols, maxRows, NoId),
                           newWidgetW, newWidgetH)
    IN IF minPosition # Null THEN AutoSuccess(minPackedLayouts, minPosition, shrunkWidgetIds)
       ELSE AutoFailure(ls)

\* Phase 3: the loop that shrinks one widget by one unit and repacks, then Phase 4
RECURSIVE AutoPhase3(_, _, _, _, _, _, _, _, _)
AutoPhase3(ls, workingLayouts, shrunk, iterations, newWidgetW, newWidgetH, cols, maxRows, widgetMinSizes) ==
    LET bestCandidate == BestCandidate(workingLayouts, Null, widgetMinSizes) IN
    IF ~(iterations < maxIterations) \/ bestCandidate = Null
    THEN AutoPhase4(ls, workingLayouts, shrunk, newWidgetW, newWidgetH, cols, maxRows,
                    widgetMinSizes)
    ELSE
    LET shrunkLayouts == ShrinkByOne(workingLayouts, bestCandidate)
        shrunkWidgetIds == AddShrunk(shrunk, bestCandidate.id)
        simple == repackWidgets(shrunkLayouts, cols, maxRows)
        simplePosition == findFirstFitPosition(
                              createOccupancyGrid(simple, cols, maxRows, NoId),
                              newWidgetW, newWidgetH)
    IN
    IF simplePosition # Null THEN AutoSuccess(simple, simplePosition, shrunkWidgetIds)
    ELSE
    LET packedLayouts == repackWidgetsOptimal(shrunkLayouts, cols, maxRows)
        position == findFirstFitPosition(
                        createOccupancyGrid(packedLayouts, cols, maxRows, NoId),
                        newWidgetW, newWidgetH)
    IN
    IF position # Null THEN AutoSuccess(packedLayouts, position, shrunkWidgetIds)
    ELSE AutoPhase3(ls, packedLayouts, shrunkWidgetIds, iterations + 1,
                    newWidgetW, newWidgetH, cols, maxRows, widgetMinSizes)

calculateAutoAdjustForNewWidget(ls, newWidgetW, newWidgetH, cols, maxRows, widgetMinSizes) ==
    LET existingPosition == findFirstFitPosition(createOccupancyGrid(ls, cols, maxRows, NoId),
                                                 newWidgetW, newWidgetH)
    IN
    IF existingPosition # Null THEN AutoSuccess(ls, existingPosition, <<>>)
    ELSE
    LET repackedLayouts == repackWidgetsOptimal(ls, cols, maxRows)
        repackedPosition == findFirstFitPosition(
                                createOccupancyGrid(repackedLayouts, cols, maxRows, NoId),
                                newWidgetW, newWidgetH)
    IN
    IF repackedPosition # Null THEN AutoSuccess(repackedLayouts, repackedPosition, <<>>)
    ELSE IF MinPossibleUsage(ls, widgetMinSizes) + newWidgetW * newWidgetH > cols * maxRows
    THEN AutoFailure(ls)
    ELSE AutoPhase3(ls, ls, <<>>, 0, newWidgetW, newWidgetH, cols, maxRows, widgetMinSizes)

\* --------------------------------------------------------- state machine
NoCall == [op |-> "none"]

Init ==
    /\ layouts \in InputLayouts
    /\ call = NoCall
    /\ result = Null
    /\ back = Null
    /\ loop = Null
    /\ store = Null

\* target zones a drop can ask for: any cell of the grid or one outside it
ZoneXs == (-1)..Cols
ZoneYs == (-1)..MaxRows

Push ==
    /\ call = NoCall
    /\ \E tx \in ZoneXs, ty \in ZoneYs, tw \in 1..MaxSize, th \in 1..MaxSize :
        /\ call' = [op |-> "push", zone |-> Zone(tx, ty, tw, th)]
        /\ result' = calculatePush(layouts, tx, ty, tw, th, Cols, MaxRows, NoId)
    /\ UNCHANGED <<layouts, back, loop, store>>

\* the minimum-size tables the caller supplies: every rect of the layout has an
\* entry and is at least its minimum (the settled-rect invariant of the data model)
MinTables(ls) ==
    {[id \in IdsOf(ls) |-> [minW |-> Min(m, Find(ls, id).w), minH |-> Min(m, Find(ls, id).h)]] :
        m \in 1..MaxSize}

\* ids a call can name: those of the layout and one that is absent
CallIds(ls) == IdsOf(ls) \cup {Ids[Len(ls) + 1]}

Resize ==
    /\ call = NoCall
    /\ \E id \in CallIds(layouts), nx \in 0..(Cols - 1), ny \in 0..(MaxRows - 1),
          nw \in 1..(MaxSize + 1), nh \in 1..MaxSize, mins \in MinTables(layouts) :
        /\ call' = [op |-> "resize", id |-> id, zone |-> Zone(nx, ny, nw, nh), mins |-> mins]
        /\ result' = calculateResizeSpace(layouts, id, nx, ny, nw, nh, Cols, MaxRows, mins)
    /\ UNCHANGED <<layouts, back, loop, store>>

Swap ==
    /\ call = NoCall
    /\ \E sourceId \in CallIds(layouts), targetId \in CallIds(layouts) :
        /\ sourceId # targetId
        /\ call' = [op |-> "swap", source |-> sourceId, target |-> targetId]
        /\ result' = calculateSwap(layouts, sourceId, targetId, Cols, MaxRows)
    /\ UNCHANGED <<layouts, back, loop, store>>

\* the caller swaps the same two widgets again on the layout the first swap returned,
\* dragging either of the two onto the other
SwapBack ==
    /\ call.op = "swap" /\ result # Null /\ back = Null
    /\ \E first \in {call.source, call.target} :
        LET second == IF first = call.source THEN call.target ELSE call.source IN
        back' = [source |-> first, target |-> second,
                 res |-> calculateSwap(result.layouts, first, second, Cols, MaxRows)]
    /\ UNCHANGED <<layouts, call, result, loop, store>>

\* the positions shown while one widget is dragged over another
SwapPreview ==
    /\ call = NoCall
    /\ \E sourceId \in CallIds(layouts), targetId \in CallIds(layouts) :
        /\ sourceId # targetId
        /\ call' = [op |-> "swapPreview", source |-> sourceId, target |-> targetId]
        /\ result' = calculateSwapPreview(layouts, sourceId, targetId, Cols, MaxRows)
    /\ UNCHANGED <<layouts, back, loop, store>>

\* one widget dragged over another and dropped: the preview shown while dragging and
\* the swap executed on drop, both on the same layout
SwapDrop ==
    /\ call = NoCall
    /\ \E sourceId \in CallIds(layouts), targetId \in CallIds(layouts) :
        /\ sourceId # targetId
        /\ call' = [op |-> "swapDrop", source |-> sourceId, target |-> targetId]
        /\ result' = [preview |-> calculateSwapPreview(layouts, sourceId, targetId, Cols, MaxRows),
                      swap |-> calculateSwap(layouts, sourceId, targetId, Cols, MaxRows)]
    /\ UNCHANGED <<layouts, back, loop, store>>

\* a large widget dragged over several: the preview computed while dragging, then the
\* swap executed with it on drop
MultiSwap ==
    /\ call = NoCall
    /\ \E sourceId \in CallIds(layouts), tx \in ZoneXs, ty \in ZoneYs :
        LET preview == calculateMultiSwapPreview(layouts, sourceId, tx, ty, Cols, MaxRows) IN
        /\ call' = [op |-> "multiSwap", source |-> sourceId, targetX |-> tx, targetY |-> ty]
        /\ result' = IF preview = Null THEN Null
                     ELSE [preview |-> preview,
                           layouts |-> calculateMultiSwap(layouts, preview, Cols, MaxRows)]
    /\ UNCHANGED <<layouts, back, loop, store>>

\* min-size tables where each widget is either rigid (minimum = current size) or can
\* shrink to a single cell
MixedMinTables(ls) ==
    {[id \in IdsOf(ls) |->
        IF id \in rigid THEN [minW |-> Find(ls, id).w, minH |-> Find(ls, id).h]
        ELSE [minW |-> 1, minH |-> 1]] : rigid \in SUBSET IdsOf(ls)}

\* addWidget: room is sought for a new widget of the given size
AutoAdjust ==
    /\ call = NoCall
    /\ \E w \in 1..Cols, h \in 1..MaxRows, mins \in MixedMinTables(layouts) :
        /\ call' = [op |-> "auto", w |-> w, h |-> h, mins |-> mins]
        /\ result' = calculateAutoAdjustForNewWidget(layouts, w, h, Cols, MaxRows, mins)
    /\ UNCHANGED <<layouts, back, loop, store>>

\* the grid the repack is exercised on: taller than wide, so that a layout can end
\* above the last row
RepackCols == 3
RepackRows == 4
RepackRects == 4

RectsIn(id, cols, rows) ==
    {r \in {[i |-> id, x |-> x, y |-> y, w |-> w, h |-> h] :
                w \in 1..MaxSize, h \in 1..MaxSize, x \in 0..(cols - 1), y \in 0..(rows - 1)} :
        Inside(r, cols, rows)}

\* the valid layouts of n rects on a grid of the given size
RECURSIVE LayoutsIn(_, _, _)
LayoutsIn(n, cols, rows) ==
    IF n = 0 THEN {<<>>}
    ELSE LET shorter == LayoutsIn(n - 1, cols, rows)
             rects == RectsIn(Ids[n], cols, rows)
         IN UNION {{Append(ls, r) : r \in {q \in rects :
                        \A k \in DOMAIN ls : RectCells(q) \cap RectCells(ls[k]) = {}}} :
                   ls \in shorter}

\* a valid layout of up to RepackRects rects: a shorter one, or a shorter one and one
\* more rect clear of it
InitRepack ==
    /\ \E ls \in UNION {LayoutsIn(n, RepackCols, RepackRows) : n \in 0..(RepackRects - 1)} :
        \/ layouts = ls
        \/ \E r \in RectsIn(Ids[Len(ls) + 1], RepackCols, RepackRows) :
            /\ \A k \in DOMAIN ls : RectCells(r) \cap RectCells(ls[k]) = {}
            /\ layouts = Append(ls, r)
    /\ call = NoCall
    /\ result = Null
    /\ back = Null
    /\ loop = Null
    /\ store = Null

\* the optimizer repack of the caller's layout, as phase 2 of the auto-adjust runs it
Repack ==
    /\ call = NoCall
    /\ call' = [op |-> "repack"]
    /\ result' = [layouts |-> repackWidgetsOptimal(layouts, RepackCols, RepackRows)]
    /\ UNCHANGED <<layouts, back, loop, store>>

\* the position-order repack of the caller's layout, as the shrink loop runs it first
RepackSimple ==
    /\ call = NoCall
    /\ call' = [op |-> "repackSimple"]
    /\ result' = [layouts |-> repackWidgets(layouts, RepackCols, RepackRows)]
    /\ UNCHANGED <<layouts, back, loop, store>>

NextRepack == Repack
SpecRepack == InitRepack /\ [][NextRepack]_vars

NextRepackSimple == RepackSimple
SpecRepackSimple == InitRepack /\ [][NextRepackSimple]_vars

\* a resize requested for a widget that is no longer in the layout
ResizeUnknown ==
    /\ call = NoCall
    /\ \E nx \in 0..(Cols - 1), ny \in 0..(MaxRows - 1),
          nw \in 1..(MaxSize + 1), nh \in 1..MaxSize, mins \in MinTables(layouts) :
        LET id == Ids[Len(layouts) + 1] IN
        /\ call' = [op |-> "resize", id |-> id, zone |-> Zone(nx, ny, nw, nh), mins |-> mins]
        /\ result' = calculateResizeSpace(layouts, id, nx, ny, nw, nh, Cols, MaxRows, mins)
    /\ UNCHANGED <<layouts, back, loop, store>>

\* the group-swap positions shown while a large widget is dragged over several
MultiSwapPreview ==
    /\ call = NoCall
    /\ \E sourceId \in CallIds(layouts), tx \in ZoneXs, ty \in ZoneYs :
        /\ call' = [op |-> "multiSwapPreview", source |-> sourceId,
                    targetX |-> tx, targetY |-> ty]
        /\ result' = calculateMultiSwapPreview(layouts, sourceId, tx, ty, Cols, MaxRows)
    /\ UNCHANGED <<layouts, back, loop, store>>

NextIds == ResizeUnknown \/ Swap \/ SwapPreview \/ MultiSwapPreview
SpecIds == Init /\ [][NextIds]_vars

\* ------------------------------------------------------ worked scenarios
Rect(id, x, y, w, h) == [i |-> id, x |-> x, y |-> y, w |-> w, h |-> h]

PushScenario == [layouts |-> <<Rect("A", 0, 0, 6, 6), Rect("B", 6, 0, 6, 6)>>,
                 cols |-> 12, w |-> 6, h |-> 6]
PushScenarioRows == {10, 12}

\* GRID_CONFIG.cols and the catalog's minimum sizes
AutoScenario == [layouts |-> <<Rect("A", 0, 0, 8, 14), Rect("B", 8, 0, 10, 14)>>,
                 cols |-> 25, maxRows |-> 20,
                 mins |-> [id \in {"A", "B"} |-> [minW |-> 5, minH |-> 6]]]
\* new-widget sizes that leave the scan in the first row
AutoScenarioSizes == [w : 1..7, h : 1..20]

SwapScenario == [layouts |-> <<Rect("A", 0, 0, 4, 4), Rect("B", 8, 0, 2, 2)>>,
                 cols |-> 12, maxRows |-> 10]

InitScenario ==
    /\ layouts \in {PushScenario.layouts, AutoScenario.layouts, SwapScenario.layouts}
    /\ call = NoCall
    /\ result = Null
    /\ back = Null
    /\ loop = Null
    /\ store = Null

\* a drop of a 6x6 widget anywhere on or around the two-rect layout
PushInScenario ==
    /\ call = NoCall /\ layouts = PushScenario.layouts
    /\ \E tx \in (-1)..PushScenario.cols, ty \in (-1)..10, maxRows \in PushScenarioRows :
        /\ call' = [op |-> "push", zone |-> Zone(tx, ty, PushScenario.w, PushScenario.h),
                    maxRows |-> maxRows]
        /\ result' = calculatePush(layouts, tx, ty, PushScenario.w, PushScenario.h,
                                   PushScenario.cols, maxRows, NoId)
    /\ UNCHANGED <<layouts, back, loop, store>>

AutoInScenario ==
    /\ call = NoCall /\ layouts = AutoScenario.layouts
    /\ \E size \in AutoScenarioSizes :
        /\ call' = [op |-> "auto", w |-> size.w, h |-> size.h, mins |-> AutoScenario.mins]
        /\ result' = calculateAutoAdjustForNewWidget(layouts, size.w, size.h,
                         AutoScenario.cols, AutoScenario.maxRows, AutoScenario.mins)
    /\ UNCHANGED <<layouts, back, loop, store>>

SwapInScenario ==
    /\ call = NoCall /\ layouts = SwapScenario.layouts
    /\ \E sourceId \in {"A", "B", "C"}, targetId \in {"A", "B", "C"} :
        /\ sourceId # targetId
        /\ call' = [op |-> "swap", source |-> sourceId, target |-> targetId]
        /\ result' = calculateSwap(layouts, sourceId, targetId,
                                   SwapScenario.cols, SwapScenario.maxRows)
    /\ UNCHANGED <<layouts, back, loop, store>>

NextScenario == PushInScenario \/ AutoInScenario \/ SwapInScenario
SpecScenario == InitScenario /\ [][NextScenario]_vars

\* the drop zones shown for a dragged widget and the first of them: both finders on the
\* occupancy of the layout without the dragged widget
FitZones ==
    /\ call = NoCall
    /\ \E excludeId \in CallIds(layouts), w \in 1..(Cols + 1), h \in 1..(MaxRows + 1) :
        LET occupancy == createOccupancyGrid(layouts, Cols, MaxRows, excludeId) IN
        /\ call' = [op |-> "fits", exclude |-> excludeId, w |-> w, h |-> h]
        /\ result' = [first |-> findFirstFitPosition(occupancy, w, h),
                      all |-> findAllFitPositions(occupancy, w, h)]
    /\ UNCHANGED <<layouts, back, loop, store>>

NextFits == FitZones

\* the nearest free position to a target cell on the occupancy of the whole layout, by
\* both copies of the search and by the first-fit scan it falls back on
FindNear ==
    /\ call = NoCall
    /\ \E targetX \in (-1)..Cols, targetY \in (-1)..MaxRows,
          w \in 1..MaxSize, h \in 1..MaxSize :
        LET occupancy == createOccupancyGrid(layouts, Cols, MaxRows, NoId) IN
        /\ call' = [op |-> "near", exclude |-> NoId, targetX |-> targetX,
                    targetY |-> targetY, w |-> w, h |-> h]
        /\ result' = [near |-> findBestPositionNear(occupancy, targetX, targetY, w, h,
                                                    Cols, MaxRows),
                      exported |-> findBestPositionNearExported(occupancy, targetX, targetY,
                                                                w, h, Cols, MaxRows),
                      first |-> findFirstFitPosition(occupancy, w, h)]
    /\ UNCHANGED <<layouts, back, loop, store>>

NextNear == FindNear
SpecNear == Init /\ [][NextNear]_vars
SpecFits == Init /\ [][NextFits]_vars

NextPush == Push
SpecPush == Init /\ [][NextPush]_vars

NextSwap == Swap \/ SwapBack
SpecSwap == Init /\ [][NextSwap]_vars

NextSwapDrop == SwapDrop
SpecSwapDrop == Init /\ [][NextSwapDrop]_vars

NextMultiSwap == MultiSwap
SpecMultiSwap == Init /\ [][NextMultiSwap]_vars

NextAuto == AutoAdjust
SpecAuto == Init /\ [][NextAuto]_vars

NextShrink == Resize \/ AutoAdjust
SpecShrink == Init /\ [][NextShrink]_vars

NextResize == Resize
SpecResize == Init /\ [][NextResize]_vars

\* ------------------------------------------- auto-adjust, one iteration per step
\* a column as tall as the grid beside a free column, and a new widget taller than the
\* grid: nothing the loop does makes room, and the column has more to give than the
\* loop has iterations
LoopScenario == [layouts |-> <<Rect("A", 0, 0, 1, 204)>>, cols |-> 2, maxRows |-> 204,
                 w |-> 1, h |-> 205,
                 mins |-> [id \in {"A"} |-> [minW |-> 1, minH |-> 1]]]

\* the same column beside a widget already at its minimum, and a new widget that fits
\* only below both once the column is a single cell: the loop runs out of iterations
\* first and phase 4 finds the room
LastResortScenario ==
    [layouts |-> <<Rect("A", 0, 0, 1, 204), Rect("B", 1, 0, 1, 1)>>, cols |-> 2,
     maxRows |-> 204, w |-> 2, h |-> 203,
     mins |-> [id \in {"A", "B"} |-> [minW |-> 1, minH |-> 1]]]

LoopScenarios == {LoopScenario, LastResortScenario}

InitAutoSteps ==
    /\ layouts \in InputLayouts \cup {sc.layouts : sc \in LoopScenarios}
    /\ call = NoCall
    /\ result = Null
    /\ back = Null
    /\ loop = Null
    /\ store = Null

\* the locals of the while loop
LoopState(pc, workingLayouts, shrunkWidgetIds, iterations) ==
    [pc |-> pc, workingLayouts |-> workingLayouts, shrunkWidgetIds |-> shrunkWidgetIds,
     iterations |-> iterations]

\* the calls the step-by-step run is started with: every size up to one column wider
\* than the grid on the small layouts, a scenario's own on its layout
AutoStepCalls ==
    IF \E sc \in LoopScenarios : sc.layouts = layouts
    THEN {[op |-> "autoSteps", w |-> sc.w, h |-> sc.h, mins |-> sc.mins, cols |-> sc.cols,
           maxRows |-> sc.maxRows] : sc \in {t \in LoopScenarios : t.layouts = layouts}}
    ELSE {[op |-> "autoSteps", w |-> w, h |-> h, mins |-> mins, cols |-> Cols,
           maxRows |-> MaxRows] :
            w \in 1..(Cols + 1), h \in 1..MaxRows, mins \in MixedMinTables(layouts)}

\* phases 1 and 2 and the area check: a result at once, or the loop is entered
AutoStart ==
    /\ call = NoCall
    /\ \E c \in AutoStepCalls :
        LET existingPosition == findFirstFitPosition(
                createOccupancyGrid(layouts, c.cols, c.maxRows, NoId), c.w, c.h)
            repackedLayouts == repackWidgetsOptimal(layouts, c.cols, c.maxRows)
            repackedPosition == findFirstFitPosition(
                createOccupancyGrid(repackedLayouts, c.cols, c.maxRows, NoId), c.w, c.h)
            Return(value) == /\ result' = value
                             /\ loop' = LoopState("done", layouts, <<>>, 0)
        IN
        /\ call' = c
        /\ IF existingPosition # Null THEN Return(AutoSuccess(layouts, existingPosition, <<>>))
           ELSE IF repackedPosition # Null
           THEN Return(AutoSuccess(repackedLayouts, repackedPosition, <<>>))
           ELSE IF MinPossibleUsage(layouts, c.mins) + c.w * c.h > c.cols * c.maxRows
           THEN Return(AutoFailure(layouts))
           ELSE /\ result' = Null
                /\ loop' = LoopState("loop", layouts, <<>>, 0)
    /\ UNCHANGED <<layouts, back, store>>

\* one pass of the while body
AutoIterate ==
    /\ loop # Null /\ loop.pc = "loop" /\ loop.iterations < maxIterations
    /\ LET iterations == loop.iterations + 1
           bestCandidate == BestCandidate(loop.workingLayouts, Null, call.mins)
       IN
       IF bestCandidate = Null
       THEN /\ loop' = [loop EXCEPT !.pc = "phase4", !.iterations = iterations]
            /\ result' = result
       ELSE
       LET workingLayouts == ShrinkByOne(loop.workingLayouts, bestCandidate)
           shrunkWidgetIds == AddShrunk(loop.shrunkWidgetIds, bestCandidate.id)
           simple == repackWidgets(workingLayouts, call.cols, call.maxRows)
           simplePosition == findFirstFitPosition(
               createOccupancyGrid(simple, call.cols, call.maxRows, NoId), call.w, call.h)
           packedLayouts == repackWidgetsOptimal(workingLayouts, call.cols, call.maxRows)
           position == findFirstFitPosition(
               createOccupancyGrid(packedLayouts, call.cols, call.maxRows, NoId),
               call.w, call.h)
       IN
       IF simplePosition # Null
       THEN /\ result' = AutoSuccess(simple, simplePosition, shrunkWidgetIds)
            /\ loop' = LoopState("done", workingLayouts, shrunkWidgetIds, iterations)
       ELSE IF position # Null
       THEN /\ result' = AutoSuccess(packedLayouts, position, shrunkWidgetIds)
            /\ loop' = LoopState("done", workingLayouts, shrunkWidgetIds, iterations)
       ELSE /\ result' = result
            /\ loop' = LoopState("loop", packedLayouts, shrunkWidgetIds, iterations)
    /\ UNCHANGED <<layouts, call, back, store>>

\* the while condition fails
AutoLoopExit ==
    /\ loop # Null /\ loop.pc = "loop" /\ ~(loop.iterations < maxIterations)
    /\ loop' = [loop EXCEPT !.pc = "phase4"]
    /\ UNCHANGED <<layouts, call, result, back, store>>

\* phase 4 and the return
AutoLastResort ==
    /\ loop # Null /\ loop.pc = "phase4"
    /\ result' = AutoPhase4(layouts, loop.workingLayouts, loop.shrunkWidgetIds,
                            call.w, call.h, call.cols, call.maxRows, call.mins)
    /\ loop' = [loop EXCEPT !.pc = "done"]
    /\ UNCHANGED <<layouts, call, back, store>>

NextAutoSteps == AutoStart \/ AutoIterate \/ AutoLoopExit \/ AutoLastResort
SpecAutoSteps == InitAutoSteps /\ [][NextAutoSteps]_vars

\* ------------------------------------------- layout state and its persistence
\* the widget catalog on the small grid: every type as tall as the grid and all with the
\* same minimum, as in the catalog of the application
DEFAULT_WIDGET_SIZES ==
    [chart |-> [w |-> 2, h |-> 2, minW |-> 1, minH |-> 1],
     watchlist |-> [w |-> 1, h |-> 2, minW |-> 1, minH |-> 1]]

\* the most widgets the dashboard takes
maxWidgets == 2

\* two of the presets, on the small grid
LAYOUT_PRESETS ==
    [trading |-> <<Rect("a", 0, 0, 2, 2), Rect("b", 2, 0, 1, 2)>>,
     compact |-> <<Rect("a", 0, 0, 2, 1), Rect("b", 2, 0, 2, 1)>>]

\* localStorage holds the layout last written, or nothing (saved); the debounce timer
\* holds the layout it will write when it fires, or is not running (pending); cleared
\* records that resetLayout has run and no layout change has been made since
StoreState(saved, pending, cleared) ==
    [saved |-> saved, pending |-> pending, cleared |-> cleared]

\* what saveLayout writes
DashboardLayoutState(ls) == [version |-> 1, layouts |-> ls]

\* the provider starts from the layout in localStorage, or from the empty default
InitStore ==
    /\ \E saved \in {Null} \cup {DashboardLayoutState(LAYOUT_PRESETS[n]) :
                                    n \in DOMAIN LAYOUT_PRESETS} :
        /\ layouts = (IF saved = Null THEN <<>> ELSE saved.layouts)
        /\ store = StoreState(saved, Null, FALSE)
    /\ call = NoCall
    /\ result = Null
    /\ back = Null
    /\ loop = Null

\* the pending timer is cleared and a new one started with the new layout
saveState(newLayouts) == StoreState(store.saved, DashboardLayoutState(newLayouts), FALSE)

\* an id no widget of the layout has
NewId(ls) ==
    Ids[CHOOSE k \in DOMAIN Ids :
            Ids[k] \notin IdsOf(ls) /\ \A j \in 1..(k - 1) : Ids[j] \in IdsOf(ls)]

AddWidget ==
    /\ Len(layouts) < maxWidgets
    /\ \E type \in DOMAIN DEFAULT_WIDGET_SIZES :
        LET size == DEFAULT_WIDGET_SIZES[type]
            widgetMinSizes == [id \in IdsOf(layouts) |->
                                  [minW |-> size.minW, minH |-> size.minH]]
            autoAdjust == calculateAutoAdjustForNewWidget(layouts, size.w, size.h, Cols,
                                                          MaxRows, widgetMinSizes)
        IN
        /\ call' = [op |-> "addWidget"]
        /\ IF ~autoAdjust.canAdd \/ autoAdjust.newWidgetPosition = Null
           THEN UNCHANGED <<layouts, store>>
           ELSE LET newLayouts == Append(autoAdjust.adjustedLayouts,
                                         Rect(NewId(layouts), autoAdjust.newWidgetPosition.x,
                                              autoAdjust.newWidgetPosition.y, size.w, size.h))
                IN layouts' = newLayouts /\ store' = saveState(newLayouts)
    /\ UNCHANGED <<result, back, loop>>

RemoveWidget ==
    /\ \E widgetId \in IdsOf(layouts) :
        LET newLayouts == FilterIds(layouts, IdsOf(layouts) \ {widgetId}) IN
        /\ layouts' = newLayouts
        /\ store' = saveState(newLayouts)
    /\ call' = [op |-> "removeWidget"]
    /\ UNCHANGED <<result, back, loop>>

\* the grid reports a layout change: one widget dragged to a free position
UpdateLayouts ==
    /\ \E k \in DOMAIN layouts, x \in 0..(Cols - 1), y \in 0..(MaxRows - 1) :
        LET newLayouts == [layouts EXCEPT ![k].x = x, ![k].y = y] IN
        /\ ValidLayout(newLayouts, Cols, MaxRows)
        /\ layouts' = newLayouts
        /\ store' = saveState(newLayouts)
    /\ call' = [op |-> "updateLayouts"]
    /\ UNCHANGED <<result, back, loop>>

LoadPreset ==
    /\ \E presetName \in DOMAIN LAYOUT_PRESETS :
        LET newLayouts == LAYOUT_PRESETS[presetName] IN
        /\ layouts' = newLayouts
        /\ store' = saveState(newLayouts)
    /\ call' = [op |-> "loadPreset"]
    /\ UNCHANGED <<result, back, loop>>

\* the state is emptied and localStorage cleared; the timer is left as it is
ResetLayout ==
    /\ layouts' = <<>>
    /\ store' = StoreState(Null, store.pending, TRUE)
    /\ call' = [op |-> "resetLayout"]
    /\ UNCHANGED <<result, back, loop>>

\* 500 ms after the last saveState the timer fires and writes its layout
SaveTimeout ==
    /\ store.pending # Null
    /\ store' = StoreState(store.pending, Null, store.cleared)
    /\ UNCHANGED <<layouts, call, result, back, loop>>

NextStore ==
    AddWidget \/ RemoveWidget \/ UpdateLayouts \/ LoadPreset \/ ResetLayout \/ SaveTimeout
SpecStore == InitStore /\ [][NextStore]_vars

\* ================================================================ claims
\* the rects of a layout whose cells meet a zone, by index
OverlappingIdx(ls, zone) == {k \in DOMAIN ls : RectCells(ls[k]) \cap RectCells(zone) # {}}

FirstOverlapping(ls, zone) ==
    ls[CHOOSE k \in OverlappingIdx(ls, zone) : \A j \in OverlappingIdx(ls, zone) : k <= j]

\* rect r translated to t lands: inside the grid, clear of the zone and of every other rect
Lands(ls, r, t, zone) ==
    /\ Inside(t, Cols, MaxRows)
    /\ RectCells(t) \cap RectCells(zone) = {}
    /\ \A k \in DOMAIN ls : ls[k].i # r.i => RectCells(t) \cap RectCells(ls[k]) = {}

\* none of the four translations of r lands
Stuck(ls, r, zone) ==
    /\ ~Lands(ls, r, [r EXCEPT !.x = @ + zone.w], zone)
    /\ ~Lands(ls, r, [r EXCEPT !.y = @ + zone.h], zone)
    /\ ~Lands(ls, r, [r EXCEPT !.x = @ - r.w], zone)
    /\ ~Lands(ls, r, [r EXCEPT !.y = @ - r.h], zone)

\* some cell position where r fits clear of the zone and of the rects other than `but`
Relocatable(ls, r, but, zone) ==
    \E x \in 0..(Cols - 1), y \in 0..(MaxRows - 1) :
        LET t == [r EXCEPT !.x = x, !.y = y] IN
        /\ Inside(t, Cols, MaxRows)
        /\ RectCells(t) \cap RectCells(zone) = {}
        /\ \A k \in DOMAIN ls : ls[k].i \notin {r.i, but} => RectCells(t) \cap RectCells(ls[k]) = {}

\* C1: a successful calculateResizeSpace returns a layout with the resized rect at its
\* new extent, no two rects overlapping and every rect inside the grid.
Thm_C1 ==
    (call.op = "resize" /\ result.canResize) =>
        /\ ValidLayout(result.newLayouts, Cols, MaxRows)
        /\ ZoneOf(Find(result.newLayouts, call.id)) = call.zone

Wit_C1 ==
    /\ call.op = "resize" /\ result.canResize
    /\ result.movedWidgets # <<>> /\ result.shrunkWidgets # <<>>

\* C3: a successful calculatePush returns a layout with no two rects overlapping, every
\* rect inside the grid and no rect on a cell of the target zone.
Thm_C3 ==
    (call.op = "push" /\ result.canPush) =>
        /\ ValidLayout(result.newLayouts, Cols, MaxRows)
        /\ OverlappingIdx(result.newLayouts, call.zone) = {}

Wit_C3 == call.op = "push" /\ result.canPush /\ Len(result.pushedWidgets) >= 2

\* C7: a failed calculatePush returns the input layout and no pushed ids, also when a
\* rect was relocated before the one that could not be; it fails whenever the first
\* overlapping rect has no direction to go.
Thm_C7 ==
    call.op = "push" =>
        /\ ~result.canPush =>
            /\ result.newLayouts = layouts
            /\ result.pushedWidgets = <<>>
            /\ OverlappingIdx(layouts, call.zone) # {}
        /\ (OverlappingIdx(layouts, call.zone) # {}
                /\ Stuck(layouts, FirstOverlapping(layouts, call.zone), call.zone))
            => ~result.canPush

Wit_C7 ==
    /\ call.op = "push" /\ ~result.canPush
    /\ OverlappingIdx(layouts, call.zone) # {}
    /\ ~Stuck(layouts, FirstOverlapping(layouts, call.zone), call.zone)

\* C8: a failed calculateResizeSpace returns the input layout with empty moved and shrunk
\* lists, also when a rect was moved before the failure; an extent outside the grid fails.
Thm_C8 ==
    call.op = "resize" =>
        /\ ~result.canResize =>
            /\ result.newLayouts = layouts
            /\ result.movedWidgets = <<>>
            /\ result.shrunkWidgets = <<>>
        /\ ~Inside(call.zone, Cols, MaxRows) => ~result.canResize

Wit_C8 ==
    /\ call.op = "resize" /\ ~result.canResize
    /\ call.id \in IdsOf(layouts) /\ Inside(call.zone, Cols, MaxRows)
    /\ \E k \in OverlappingIdx(layouts, call.zone) :
        /\ layouts[k].i # call.id
        /\ \A j \in OverlappingIdx(layouts, call.zone) : layouts[j].i # call.id => k <= j
        /\ Relocatable(layouts, layouts[k], call.id, call.zone)

\* C9: a push into a zone no rect overlaps succeeds, returns the input layout and
\* pushes nothing.
Thm_C9 ==
    (call.op = "push" /\ OverlappingIdx(layouts, call.zone) = {}) =>
        /\ result.canPush
        /\ result.newLayouts = layouts
        /\ result.pushedWidgets = <<>>

Wit_C9 ==
    /\ call.op = "push" /\ OverlappingIdx(layouts, call.zone) = {}
    /\ Len(layouts) = MaxRects /\ Inside(call.zone, Cols, MaxRows)
    /\ \E k \in DOMAIN layouts : zonesOverlapOrTouch(ZoneOf(layouts[k]), call.zone)

\* the size of the rect with this id
SizeOf(ls, id) == [w |-> Find(ls, id).w, h |-> Find(ls, id).h]

\* C2: a non-null calculateSwap result, for two distinct ids of a valid layout and the
\* bounds the layout is valid for, has no two rects overlapping and every rect inside
\* the grid.
Thm_C2 ==
    (call.op = "swap" /\ result # Null) => ValidLayout(result.layouts, Cols, MaxRows)

Wit_C2 ==
    /\ call.op = "swap" /\ result # Null /\ Len(layouts) = MaxRects
    /\ Find(result.layouts, call.source).x # Find(layouts, call.target).x
    /\ Find(result.layouts, call.target).x # Find(layouts, call.source).x

\* where the preview puts a rect: the source, a displaced rect, or an untouched one
PreviewRect(preview, r) ==
    IF r.i = preview.sourceId
    THEN [r EXCEPT !.x = preview.sourceNewPos.x, !.y = preview.sourceNewPos.y,
                   !.w = preview.sourceNewPos.w, !.h = preview.sourceNewPos.h]
    ELSE IF \E k \in DOMAIN preview.targetNewPositions : preview.targetNewPositions[k].id = r.i
    THEN LET t == preview.targetNewPositions[
                    CHOOSE k \in DOMAIN preview.targetNewPositions :
                        preview.targetNewPositions[k].id = r.i].pos
         IN [r EXCEPT !.x = t.x, !.y = t.y, !.w = t.w, !.h = t.h]
    ELSE r

PreviewLayout(preview, ls) == [k \in DOMAIN ls |-> PreviewRect(preview, ls[k])]

\* C5: a non-null group-swap preview places the source, the displaced rects and the
\* untouched rects pairwise disjoint and inside the grid with every size kept, and
\* calculateMultiSwap with that preview returns a layout with exactly these rects.
Thm_C5 ==
    (call.op = "multiSwap" /\ result # Null) =>
        LET planned == PreviewLayout(result.preview, layouts) IN
        /\ ValidLayout(planned, Cols, MaxRows)
        /\ \A k \in DOMAIN layouts :
            planned[k].w = layouts[k].w /\ planned[k].h = layouts[k].h
        /\ Len(result.layouts) = Len(layouts)
        /\ Range(result.layouts) = Range(planned)

Wit_C5 ==
    /\ call.op = "multiSwap" /\ result # Null
    /\ Len(result.preview.targetNewPositions) >= 2

\* C10 as claimed: after a successful swap of A and B, swapping them again returns a
\* layout with A and B inside the grid, on disjoint cells clear of every other rect, and
\* A and B have their original sizes after both swaps.
Cex_C10 ==
    back # Null =>
        /\ SizeOf(result.layouts, call.source) = SizeOf(layouts, call.source)
        /\ SizeOf(result.layouts, call.target) = SizeOf(layouts, call.target)
        /\ back.res # Null
        /\ ValidLayout(back.res.layouts, Cols, MaxRows)
        /\ SizeOf(back.res.layouts, call.source) = SizeOf(layouts, call.source)
        /\ SizeOf(back.res.layouts, call.target) = SizeOf(layouts, call.target)

\* the rects of an auto-adjust result together with the new widget at its position
WithNewWidget(res, w, h) ==
    Append(res.adjustedLayouts,
           [i |-> NoId, x |-> res.newWidgetPosition.x, y |-> res.newWidgetPosition.y,
            w |-> w, h |-> h])

\* C4 as claimed: whenever calculateAutoAdjustForNewWidget returns canAdd = true, the
\* rects of adjustedLayouts and the new widget at newWidgetPosition are pairwise
\* non-overlapping and every one lies inside the grid.
Cex_C4 ==
    (call.op = "auto" /\ result.canAdd) =>
        ValidLayout(WithNewWidget(result, call.w, call.h), Cols, MaxRows)

\* the layout a successful resize or auto-adjust call returned, or the empty layout
ShrinkOutcome ==
    IF call.op = "resize" /\ result.canResize THEN result.newLayouts
    ELSE IF call.op = "auto" /\ result.canAdd THEN result.adjustedLayouts
    ELSE <<>>

\* the rect came out smaller than it went in
Reduced(r) == r.w < Find(layouts, r.i).w \/ r.h < Find(layouts, r.i).h

AtLeastMin(r) == r.w >= call.mins[r.i].minW /\ r.h >= call.mins[r.i].minH

\* C6 as claimed: in every success result of calculateResizeSpace and of
\* calculateAutoAdjustForNewWidget, every rect that is smaller than in the input still
\* has w >= minW and h >= minH.
Cex_C6 ==
    \A k \in DOMAIN ShrinkOutcome : Reduced(ShrinkOutcome[k]) => AtLeastMin(ShrinkOutcome[k])

\* C6: in every success result of calculateResizeSpace and of
\* calculateAutoAdjustForNewWidget, every rect that is smaller than in the input, other
\* than the rect being resized, whose extent is the one the call asked for, still has
\* w >= minW and h >= minH.
Thm_C6 ==
    \A k \in DOMAIN ShrinkOutcome :
        (Reduced(ShrinkOutcome[k]) /\ ~(call.op = "resize" /\ ShrinkOutcome[k].i = call.id))
            => AtLeastMin(ShrinkOutcome[k])

\* C6 for auto-adjust alone: there the statement holds for every rect
Aux_C6_Auto ==
    call.op = "auto" => Cex_C6

\* a resize that shrank a neighbour in Phase 2
Wit_C6 ==
    /\ call.op = "resize" /\ result.canResize
    /\ \E k \in DOMAIN result.newLayouts :
        /\ result.newLayouts[k].i # call.id
        /\ Reduced(result.newLayouts[k])

\* an auto-adjust that shrank a widget while another stayed at its rigid size
Wit_C6_Auto ==
    /\ call.op = "auto" /\ result.canAdd
    /\ \E k \in DOMAIN result.adjustedLayouts : Reduced(result.adjustedLayouts[k])
    /\ \E id \in DOMAIN call.mins : call.mins[id].minW * call.mins[id].minH > 1

\* C10, second swap succeeding: a swap back that returns a layout returns a valid one
\* with the sizes of both rects kept
Aux_C10_WhenReturned ==
    (back # Null /\ back.res # Null) =>
        /\ ValidLayout(back.res.layouts, Cols, MaxRows)
        /\ SizeOf(result.layouts, call.source) = SizeOf(layouts, call.source)
        /\ SizeOf(result.layouts, call.target) = SizeOf(layouts, call.target)
        /\ SizeOf(back.res.layouts, call.source) = SizeOf(layouts, call.source)
        /\ SizeOf(back.res.layouts, call.target) = SizeOf(layouts, call.target)

\* the vertical extent max(y+h) of a layout, 0 when it is empty
Extent(ls) ==
    IF ls = <<>> THEN 0
    ELSE CHOOSE m \in {ls[k].y + ls[k].h : k \in DOMAIN ls} :
            \A k \in DOMAIN ls : ls[k].y + ls[k].h <= m

\* C11 as claimed: the layout repackWidgetsOptimal returns for a valid layout has a
\* vertical extent no greater than that of the input.
Cex_C11 ==
    call.op = "repack" => Extent(result.layouts) <= Extent(layouts)

\* the positions where a w x h rect lies inside the grid and clear of every rect of ls
FreePositions(ls, w, h, cols, maxRows) ==
    {p \in [x : 0..(cols - 1), y : 0..(maxRows - 1)] :
        LET r == [i |-> NoId, x |-> p.x, y |-> p.y, w |-> w, h |-> h] IN
        /\ Inside(r, cols, maxRows)
        /\ \A k \in DOMAIN ls : RectCells(r) \cap RectCells(ls[k]) = {}}

\* the position with the smallest y and, among those, the smallest x
TopLeftMost(ps) ==
    CHOOSE p \in ps : \A q \in ps : p.y < q.y \/ (p.y = q.y /\ p.x <= q.x)

SameSizes(ls, ms) ==
    /\ Len(ls) = Len(ms)
    /\ IdsOf(ls) = IdsOf(ms)
    /\ \A k \in DOMAIN ms : SizeOf(ms, ms[k].i) = SizeOf(ls, ms[k].i)

\* C12: if the new rect fits in the input layout as it is, calculateAutoAdjustForNewWidget
\* returns canAdd = true, the input layout unchanged, the top-left-most free position and
\* no shrunk ids; if it fits only after the plain optimizer repack, it returns canAdd =
\* true with no shrunk ids and every rect at its input size.
Thm_C12 ==
    call.op = "auto" =>
        LET fitsAsIs == FreePositions(layouts, call.w, call.h, Cols, MaxRows)
            fitsRepacked == FreePositions(repackWidgetsOptimal(layouts, Cols, MaxRows),
                                          call.w, call.h, Cols, MaxRows)
        IN
        /\ fitsAsIs # {} =>
            /\ result.canAdd
            /\ result.adjustedLayouts = layouts
            /\ result.newWidgetPosition = TopLeftMost(fitsAsIs)
            /\ result.shrunkWidgets = <<>>
        /\ (fitsAsIs = {} /\ fitsRepacked # {}) =>
            /\ result.canAdd
            /\ result.shrunkWidgets = <<>>
            /\ SameSizes(layouts, result.adjustedLayouts)

\* a rect that fits only after the repack, while some widget could have been shrunk
Wit_C12 ==
    /\ call.op = "auto" /\ result.canAdd
    /\ FreePositions(layouts, call.w, call.h, Cols, MaxRows) = {}
    /\ result.shrunkWidgets = <<>>
    /\ \E k \in DOMAIN layouts :
        call.mins[layouts[k].i].minW < layouts[k].w

\* C13: a non-null calculateSwap result on a valid layout has the ids of the input,
\* every rect at its input size, and every rect other than source and target at its
\* input position.
Thm_C13 ==
    (call.op = "swap" /\ result # Null) =>
        /\ SameSizes(layouts, result.layouts)
        /\ \A k \in DOMAIN layouts :
            layouts[k].i \notin {call.source, call.target} =>
                /\ Find(result.layouts, layouts[k].i).x = layouts[k].x
                /\ Find(result.layouts, layouts[k].i).y = layouts[k].y

\* a swap of two rects of different sizes next to a third rect
Wit_C13 ==
    /\ call.op = "swap" /\ result # Null /\ Len(layouts) = MaxRects
    /\ SizeOf(layouts, call.source) # SizeOf(layouts, call.target)
    /\ Find(result.layouts, call.source).x # Find(layouts, call.source).x

\* the call names an id the layout does not hold
UnknownId ==
    \/ call.op = "resize" /\ call.id \notin IdsOf(layouts)
    \/ call.op \in {"swap", "swapPreview"}
            /\ (call.source \notin IdsOf(layouts) \/ call.target \notin IdsOf(layouts))
    \/ call.op = "multiSwapPreview" /\ call.source \notin IdsOf(layouts)

\* C14: with a resizingId absent from the layout calculateResizeSpace returns
\* canResize = false, the input layout and empty moved and shrunk lists; with an absent
\* sourceId or targetId calculateSwap and calculateSwapPreview return null; with an
\* absent sourceId calculateMultiSwapPreview returns null.
Thm_C14 ==
    UnknownId =>
        IF call.op = "resize"
        THEN result = [canResize |-> FALSE, newLayouts |-> layouts,
                       movedWidgets |-> <<>>, shrunkWidgets |-> <<>>]
        ELSE result = Null

\* an unknown target named to the preview while the source is a rect of a full layout
Wit_C14 ==
    /\ call.op = "swapPreview" /\ Len(layouts) = MaxRects
    /\ call.source \in IdsOf(layouts) /\ call.target \notin IdsOf(layouts)
    /\ result = Null

\* the zone is not fully inside the grid
ZoneOutside(zone, cols, maxRows) ==
    zone.x < 0 \/ zone.y < 0 \/ zone.x + zone.w > cols \/ zone.y + zone.h > maxRows

\* C15 as claimed: calculatePush with a target zone that is not fully inside the grid
\* returns canPush = false and the input layout, whether or not a rect overlaps the zone.
Cex_C15 ==
    (call.op = "push" /\ ZoneOutside(call.zone, Cols, MaxRows)) =>
        /\ ~result.canPush
        /\ result.newLayouts = layouts

\* C15, what the code does with such a zone when no rect overlaps it: it reports
\* canPush = true with the input layout and nothing pushed
Aux_C15_NoOverlap ==
    (/\ call.op = "push" /\ ZoneOutside(call.zone, Cols, MaxRows)
     /\ \A k \in DOMAIN layouts : ~zonesOverlap(ZoneOf(layouts[k]), call.zone))
        => result = [canPush |-> TRUE, newLayouts |-> layouts, pushedWidgets |-> <<>>]

\* an arrangement exists: every rect of ls at some size between its minimum and its
\* current size and at some position, and a w x h rect besides, all inside the grid and
\* pairwise disjoint; used is the set of cells taken so far
RECURSIVE CanArrange(_, _, _, _, _, _, _)
CanArrange(ls, used, mins, w, h, cols, maxRows) ==
    IF ls = <<>>
    THEN \E x \in 0..(cols - w), y \in 0..(maxRows - h) :
            RectCells([x |-> x, y |-> y, w |-> w, h |-> h]) \cap used = {}
    ELSE \E rw \in mins[Head(ls).i].minW..Head(ls).w, rh \in mins[Head(ls).i].minH..Head(ls).h :
         \E x \in 0..(cols - rw), y \in 0..(maxRows - rh) :
            LET cells == RectCells([x |-> x, y |-> y, w |-> rw, h |-> rh]) IN
            /\ cells \cap used = {}
            /\ CanArrange(Tail(ls), used \cup cells, mins, w, h, cols, maxRows)

\* C16 as claimed: when calculateAutoAdjustForNewWidget returns canAdd = false for a valid
\* layout, no arrangement of the existing rects (each between its minimum and its
\* current size) and the new rect exists, and the result carries the input layout, a null
\* position and no shrunk ids.
Cex_C16 ==
    (call.op = "auto" /\ ~result.canAdd) =>
        /\ result.adjustedLayouts = layouts
        /\ result.newWidgetPosition = Null
        /\ result.shrunkWidgets = <<>>
        /\ ~CanArrange(layouts, {}, call.mins, call.w, call.h, Cols, MaxRows)

\* C16, the shape of a failure: the input layout, a null position, no shrunk ids
Aux_C16_FailureShape ==
    (call.op = "auto" /\ ~result.canAdd) =>
        result = [canAdd |-> FALSE, adjustedLayouts |-> layouts,
                  newWidgetPosition |-> Null, shrunkWidgets |-> <<>>]

\* the push of the scenario: a 6x6 zone at (3,0)
PushAtThreeZero == call.op = "push" /\ layouts = PushScenario.layouts
                       /\ call.zone = Zone(3, 0, 6, 6)

PushedDown ==
    /\ result.canPush
    /\ Find(result.newLayouts, "A") = Rect("A", 0, 6, 6, 6)
    /\ Find(result.newLayouts, "B") = Rect("B", 6, 6, 6, 6)
    /\ Len(result.newLayouts) = 2
    /\ result.pushedWidgets = <<"A", "B">>

\* C17 as claimed: on the 12x10 grid with A(0,0,6,6) and B(6,0,6,6), calculatePush for a
\* 6x6 rect at (3,0) succeeds with A at (0,6), B at (6,6) and pushedWidgets = [A, B].
Cex_C17 ==
    (PushAtThreeZero /\ call.maxRows = 10) => PushedDown

\* C17: with maxRows = 10 that push fails and returns the input layout with nothing
\* pushed, because a 6-high rect moved down by 6 would end at row 12; with maxRows = 12
\* it succeeds with A at (0,6), B at (6,6) and pushedWidgets = [A, B].
Thm_C17 ==
    PushAtThreeZero =>
        IF call.maxRows = 10
        THEN result = [canPush |-> FALSE, newLayouts |-> layouts, pushedWidgets |-> <<>>]
        ELSE PushedDown

Wit_C17 ==
    PushAtThreeZero /\ call.maxRows = 12 /\ PushedDown

\* C18: on the 25x20 grid with A(0,0,8,14) and B(8,0,10,14), calculateAutoAdjustForNewWidget
\* for a 6x14 rect returns canAdd = true, position (18,0), the layout unchanged and no
\* shrunk ids.
Thm_C18 ==
    (call.op = "auto" /\ layouts = AutoScenario.layouts /\ call.w = 6 /\ call.h = 14) =>
        result = [canAdd |-> TRUE, adjustedLayouts |-> layouts,
                  newWidgetPosition |-> [x |-> 18, y |-> 0], shrunkWidgets |-> <<>>]

Wit_C18 ==
    /\ call.op = "auto" /\ layouts = AutoScenario.layouts /\ call.w = 6 /\ call.h = 14
    /\ result.canAdd /\ result.newWidgetPosition.x = 18

\* C19: on the 12x10 grid holding only A(0,0,4,4) and B(8,0,2,2), calculateSwap(A, B)
\* returns A at (8,0) still 4x4 and B at (0,0) still 2x2, with no overlap.
Thm_C19 ==
    (call.op = "swap" /\ layouts = SwapScenario.layouts
        /\ call.source = "A" /\ call.target = "B") =>
        /\ result # Null
        /\ Range(result.layouts) = {Rect("A", 8, 0, 4, 4), Rect("B", 0, 0, 2, 2)}
        /\ Len(result.layouts) = 2
        /\ ValidLayout(result.layouts, SwapScenario.cols, SwapScenario.maxRows)

Wit_C19 ==
    /\ call.op = "swap" /\ layouts = SwapScenario.layouts
    /\ call.source = "A" /\ call.target = "B"
    /\ result # Null /\ Find(result.layouts, "A").x = 8

\* the positions canFitAt accepts for the call's size, looked for one cell beyond the
\* grid on every side
FitSet ==
    LET occupancy == createOccupancyGrid(layouts, Cols, MaxRows, call.exclude) IN
    {p \in [x : (-1)..Cols, y : (-1)..MaxRows] : canFitAt(occupancy, p.x, p.y, call.w, call.h)}

\* C20: findFirstFitPosition returns null exactly when no position satisfies canFitAt,
\* and otherwise the fitting position with the smallest y and then the smallest x;
\* findAllFitPositions returns exactly the fitting positions, each once and with the
\* requested size, and its first element is the findFirstFitPosition result.
Thm_C20 ==
    call.op = "fits" =>
        /\ (result.first = Null) <=> (FitSet = {})
        /\ FitSet # {} => result.first = TopLeftMost(FitSet)
        /\ {[x |-> result.all[k].x, y |-> result.all[k].y] : k \in DOMAIN result.all} = FitSet
        /\ Len(result.all) = Cardinality(FitSet)
        /\ \A k \in DOMAIN result.all : result.all[k].w = call.w /\ result.all[k].h = call.h
        /\ FitSet # {} => [x |-> result.all[1].x, y |-> result.all[1].y] = result.first

\* several fitting positions, the first of them neither in column 0 nor in row 0
Wit_C20 ==
    /\ call.op = "fits" /\ result.first # Null
    /\ Len(result.all) >= 2
    /\ result.first.x > 0 /\ result.first.y > 0

\* Chebyshev distance of a position to the call's target cell
TargetDistance(p) == Max(Abs(p.x - call.targetX), Abs(p.y - call.targetY))

TargetInGrid ==
    call.targetX >= 0 /\ call.targetX < Cols /\ call.targetY >= 0 /\ call.targetY < MaxRows

\* C21: findBestPositionNear and its exported twin return the same position; it is null
\* only when no position of the grid satisfies canFitAt for the size, and otherwise a
\* fitting position; when the target cell lies inside the grid, no fitting position is
\* nearer to the target in Chebyshev distance; when no fitting position lies within
\* distance max(cols, maxRows) - 1 of the target, the result is the findFirstFitPosition
\* result.
Thm_C21 ==
    call.op = "near" =>
        /\ result.near = result.exported
        /\ (result.near = Null) <=> (FitSet = {})
        /\ result.near # Null => result.near \in FitSet
        /\ (TargetInGrid /\ result.near # Null) =>
                \A p \in FitSet : TargetDistance(result.near) <= TargetDistance(p)
        /\ (\A p \in FitSet : TargetDistance(p) >= Max(Cols, MaxRows)) =>
                result.near = result.first

\* a target inside the grid that is taken, a fit found two rings out, another fit
\* farther away
Wit_C21 ==
    /\ call.op = "near" /\ TargetInGrid /\ result.near # Null
    /\ TargetDistance(result.near) = 2
    /\ \E p \in FitSet : TargetDistance(p) > 2

\* a target outside the grid whose rings reach no fit: the first-fit position is returned
Wit_C21_Fallback ==
    /\ call.op = "near" /\ ~TargetInGrid /\ result.near # Null
    /\ \A p \in FitSet : TargetDistance(p) >= Max(Cols, MaxRows)

\* the four translations of r for a zone: right, down, left, up
Translations(r, zone) ==
    << [r EXCEPT !.x = @ + zone.w], [r EXCEPT !.y = @ + zone.h],
       [r EXCEPT !.x = @ - r.w], [r EXCEPT !.y = @ - r.h] >>

\* the number of the first translation of r that lands in layout ls, 0 when none does
FirstLanding(ls, r, zone) ==
    LET landing == {d \in 1..4 : Lands(ls, r, Translations(r, zone)[d], zone)} IN
    IF landing = {} THEN 0 ELSE CHOOSE d \in landing : \A e \in landing : d <= e

\* the rects at the indices todo, lowest index first, each given its first landing
\* translation in the layout left by the ones before it
RECURSIVE PushedInOrder(_, _, _)
PushedInOrder(ls, todo, zone) ==
    IF todo = {} THEN [ok |-> TRUE, layouts |-> ls]
    ELSE
    LET k == CHOOSE j \in todo : \A e \in todo : j <= e
        d == FirstLanding(ls, ls[k], zone)
    IN IF d = 0 THEN [ok |-> FALSE]
       ELSE PushedInOrder([ls EXCEPT ![k] = Translations(ls[k], zone)[d]], todo \ {k}, zone)

\* C22: calculatePush takes the rects overlapping the target zone in layout order and
\* gives each the first of right (+targetW), down (+targetH), left (-w), up (-h) whose
\* translated rect is inside the grid, clear of the zone and clear of every other rect,
\* rects pushed earlier counted at their new positions; it succeeds exactly when every
\* one of them has such a direction.
Thm_C22 ==
    call.op = "push" =>
        LET expected == PushedInOrder(layouts, OverlappingIdx(layouts, call.zone), call.zone) IN
        /\ result.canPush = expected.ok
        /\ expected.ok => result.newLayouts = expected.layouts

\* two rects pushed, the second one upwards after its first three directions failed
Wit_C22 ==
    /\ call.op = "push" /\ result.canPush /\ Len(result.pushedWidgets) = 2
    /\ \E k \in OverlappingIdx(layouts, call.zone) :
        /\ layouts[k].i = result.pushedWidgets[2]
        /\ result.newLayouts[k].y = layouts[k].y - layouts[k].h

\* the ids of the rects of ls at the indices idx, in layout order
RECURSIVE IdsAt(_, _)
IdsAt(ls, idx) ==
    IF idx = {} THEN <<>>
    ELSE LET k == CHOOSE j \in idx : \A e \in idx : j <= e
         IN <<ls[k].i>> \o IdsAt(ls, idx \ {k})

\* C23: in a successful calculatePush result every rect that did not overlap the target
\* zone is unchanged, every rect that did keeps its id, w and h and has moved along
\* exactly one axis, and pushedWidgets lists exactly the ids of the overlapping rects.
Thm_C23 ==
    (call.op = "push" /\ result.canPush) =>
        LET overlapped == OverlappingIdx(layouts, call.zone) IN
        /\ DOMAIN result.newLayouts = DOMAIN layouts
        /\ \A k \in DOMAIN layouts \ overlapped : result.newLayouts[k] = layouts[k]
        /\ \A k \in overlapped :
            LET old == layouts[k]
                new == result.newLayouts[k]
            IN /\ new.i = old.i /\ new.w = old.w /\ new.h = old.h
               /\ (new.x # old.x) # (new.y # old.y)
        /\ result.pushedWidgets = IdsAt(layouts, overlapped)

\* a push that moves one rect sideways and another vertically and leaves a third alone
Wit_C23 ==
    /\ call.op = "push" /\ result.canPush
    /\ Len(layouts) = 3 /\ Len(result.pushedWidgets) = 2
    /\ \E j \in DOMAIN layouts : result.newLayouts[j].x # layouts[j].x
    /\ \E k \in DOMAIN layouts : result.newLayouts[k].y # layouts[k].y

\* the indices of the rects, other than the resizing one, that overlap the new extent
AffectedIdx == {k \in OverlappingIdx(layouts, call.zone) : layouts[k].i # call.id}

\* the layout Phase 1 works on when it reaches the rect at index k: the affected rects
\* before it that were moved stand at their new positions
WorkingBefore(k) ==
    [j \in DOMAIN layouts |->
        IF j \in AffectedIdx /\ j < k /\ layouts[j].i \in Range(result.movedWidgets)
        THEN result.newLayouts[j] ELSE layouts[j]]

\* C24: in a successful calculateResizeSpace result with conflicts each rect that
\* overlapped the new extent is in exactly one of movedWidgets and shrunkWidgets and
\* the lists hold nothing else; a moved rect keeps its size and changes position; a
\* shrunk rect had, at its turn in Phase 1, no free position at its current size with
\* the new extent occupied; every other rect but the resizing one is unchanged.
Thm_C24 ==
    (call.op = "resize" /\ result.canResize /\ AffectedIdx # {}) =>
        LET moved == Range(result.movedWidgets)
            shrunk == Range(result.shrunkWidgets)
        IN
        /\ moved \cap shrunk = {}
        /\ moved \cup shrunk = {layouts[k].i : k \in AffectedIdx}
        /\ Len(result.movedWidgets) = Cardinality(moved)
        /\ Len(result.shrunkWidgets) = Cardinality(shrunk)
        /\ DOMAIN result.newLayouts = DOMAIN layouts
        /\ \A k \in AffectedIdx :
            LET old == layouts[k]
                new == result.newLayouts[k]
            IN /\ new.i = old.i
               /\ old.i \in moved =>
                    /\ new.w = old.w /\ new.h = old.h
                    /\ <<new.x, new.y>> # <<old.x, old.y>>
               /\ old.i \in shrunk =>
                    ~Relocatable(WorkingBefore(k), old, call.id, call.zone)
        /\ \A k \in DOMAIN layouts \ AffectedIdx :
            layouts[k].i # call.id => result.newLayouts[k] = layouts[k]

\* a resize that moves one rect and then shrinks another for which the move left no
\* room, although the input layout had a free position for it
Wit_C24 ==
    /\ call.op = "resize" /\ result.canResize
    /\ result.movedWidgets # <<>> /\ result.shrunkWidgets # <<>>
    /\ \E k \in AffectedIdx :
        /\ layouts[k].i \in Range(result.shrunkWidgets)
        /\ Relocatable(layouts, layouts[k], call.id, call.zone)

\* the swap's source and target exchanged exactly: each at the other's original (x, y)
ExactExchange ==
    LET source == Find(layouts, call.source)
        target == Find(layouts, call.target)
    IN [source |-> [source EXCEPT !.x = target.x, !.y = target.y],
        target |-> [target EXCEPT !.x = source.x, !.y = source.y]]

\* the exact exchange is possible: both rects inside the grid, clear of every third
\* rect and clear of each other
ExactExchangeFits ==
    /\ call.source \in IdsOf(layouts) /\ call.target \in IdsOf(layouts)
    /\ Inside(ExactExchange.source, Cols, MaxRows)
    /\ Inside(ExactExchange.target, Cols, MaxRows)
    /\ RectCells(ExactExchange.source) \cap RectCells(ExactExchange.target) = {}
    /\ \A k \in DOMAIN layouts :
        layouts[k].i \notin {call.source, call.target} =>
            /\ RectCells(ExactExchange.source) \cap RectCells(layouts[k]) = {}
            /\ RectCells(ExactExchange.target) \cap RectCells(layouts[k]) = {}

\* C25: whenever, with source and target taken out of the layout, source fits at
\* target's original (x, y), target fits at source's original (x, y) and the two
\* placements do not overlap, calculateSwap returns a layout with source exactly at
\* target's original position and target exactly at source's.
Thm_C25 ==
    (call.op = "swap" /\ ExactExchangeFits) =>
        /\ result # Null
        /\ Find(result.layouts, call.source) = ExactExchange.source
        /\ Find(result.layouts, call.target) = ExactExchange.target

\* an exact exchange of two rects of different sizes beside a third rect
Wit_C25 ==
    /\ call.op = "swap" /\ ExactExchangeFits /\ result # Null
    /\ Len(layouts) = 3
    /\ SizeOf(layouts, call.source) # SizeOf(layouts, call.target)

\* no rect of ls is above its minimum in either dimension
NoExcess(ls, mins) ==
    \A k \in DOMAIN ls :
        /\ ls[k].w <= MinSizeOf(mins, ls[k].i).minW
        /\ ls[k].h <= MinSizeOf(mins, ls[k].i).minH

\* the ids whose size differs between two layouts over the same ids
Resized(before, after) == {id \in IdsOf(before) : SizeOf(before, id) # SizeOf(after, id)}

\* one step taken from inside the loop: it leaves the loop for phase 4 with every size
\* as it was, and does so when no rect has excess left; otherwise it takes one unit off
\* the w or the h of exactly one rect, which was above its minimum there
LoopStep ==
    (loop # Null /\ loop.pc = "loop") =>
        LET before == loop.workingLayouts
            after == loop'.workingLayouts
        IN
        /\ IdsOf(after) = IdsOf(before)
        /\ NoExcess(before, call.mins) => loop'.pc = "phase4"
        /\ IF loop'.pc = "phase4"
           THEN /\ Resized(before, after) = {}
                /\ NoExcess(before, call.mins) \/ loop.iterations = maxIterations
           ELSE /\ loop'.iterations = loop.iterations + 1
                /\ \E id \in IdsOf(before) :
                    LET old == Find(before, id)
                        new == Find(after, id)
                    IN /\ Resized(before, after) = {id}
                       /\ \/ new.w = old.w - 1 /\ new.h = old.h
                                /\ old.w > MinSizeOf(call.mins, id).minW
                          \/ new.h = old.h - 1 /\ new.w = old.w
                                /\ old.h > MinSizeOf(call.mins, id).minH

\* phase 4 is one step that ends the call with a result
LastResortStep ==
    (loop # Null /\ loop.pc = "phase4") => (loop'.pc = "done" /\ result' # Null)

\* what a running call has left to do at most: the iterations the ceiling still allows,
\* then phase 4, then the return
StepsLeft(l) ==
    IF l.pc = "loop" THEN 2 + (maxIterations - l.iterations)
    ELSE IF l.pc = "phase4" THEN 1 ELSE 0

\* every step of a running call brings the return nearer, and a call that has returned
\* takes no further step
TowardsReturn ==
    loop # Null => (StepsLeft(loop') < StepsLeft(loop) /\ StepsLeft(loop') >= 0)

\* C26: the shrink loop of calculateAutoAdjustForNewWidget never counts more than 200
\* iterations; every iteration takes exactly 1 off the w or the h of exactly one rect
\* that was above its minimum there; the loop is left as soon as no rect has excess;
\* phase 4 then runs once and returns a result; and every step of a call lowers a
\* natural-number measure of what is left to do, so that no call runs forever.
Thm_C26 ==
    /\ [](loop # Null => loop.iterations <= maxIterations)
    /\ [](loop # Null => ((loop.pc = "done") <=> (result # Null)))
    /\ [][LoopStep /\ LastResortStep /\ TowardsReturn]_vars

\* the loop ended by its ceiling: 200 iterations done and the rect still above minimum
Wit_C26 ==
    /\ loop # Null /\ loop.pc = "done" /\ loop.iterations = maxIterations
    /\ ~NoExcess(loop.workingLayouts, call.mins)

\* the loop ended by running out of excess after shrinking several times
Wit_C26_Exhausted ==
    /\ loop # Null /\ loop.pc = "done" /\ loop.iterations >= 4
    /\ NoExcess(loop.workingLayouts, call.mins)
    /\ Len(layouts) >= 2

\* on the small grid a finished step-by-step run has returned what the function
\* returns in one piece
Aux_C26_SameResult ==
    (loop # Null /\ loop.pc = "done" /\ call.cols = Cols) =>
        result = calculateAutoAdjustForNewWidget(layouts, call.w, call.h, call.cols,
                                                 call.maxRows, call.mins)

\* the ids of the input rects that are narrower or lower in the adjusted layout
Smaller(before, after) ==
    {id \in IdsOf(before) :
        Find(after, id).w < Find(before, id).w \/ Find(after, id).h < Find(before, id).h}

\* C27: in every success result of calculateAutoAdjustForNewWidget shrunkWidgets holds
\* exactly the ids whose w or h in adjustedLayouts is smaller than in the input layout.
Cex_C27 ==
    (call.op = "autoSteps" /\ result # Null /\ result.canAdd) =>
        Range(result.shrunkWidgets) = Smaller(layouts, result.adjustedLayouts)

\* the ids are exactly the shrunk ones whenever the call succeeds before phase 4
Aux_C27_BeforeLastResort ==
    (call.op = "autoSteps" /\ result # Null /\ result.canAdd
            /\ (loop.iterations < maxIterations /\ ~NoExcess(loop.workingLayouts, call.mins)))
        => Range(result.shrunkWidgets) = Smaller(layouts, result.adjustedLayouts)

\* C28: calculateSwapPreview returns null exactly when calculateSwap does, and otherwise
\* shows the position and size source and target have in the layout calculateSwap returns.
Cex_C28 ==
    call.op = "swapDrop" =>
        /\ (result.preview = Null) <=> (result.swap = Null)
        /\ (result.preview # Null /\ result.swap # Null) =>
            /\ result.preview.sourceNewPos = ZoneOf(Find(result.swap.layouts, call.source))
            /\ result.preview.targetNewPos = ZoneOf(Find(result.swap.layouts, call.target))

\* the exchanged positions of source and target, each clamped into the grid, overlap
ExchangeOverlaps ==
    LET s == Find(layouts, call.source)
        t == Find(layouts, call.target)
    IN zonesOverlap(Zone(SwapClamp(t.x, s.w, Cols), SwapClamp(t.y, s.h, MaxRows), s.w, s.h),
                    Zone(SwapClamp(s.x, t.w, Cols), SwapClamp(s.y, t.h, MaxRows), t.w, t.h))

\* preview and swap agree whenever the exchanged positions do not overlap each other
Aux_C28_Apart ==
    (call.op = "swapDrop" /\ Find(layouts, call.source) # Null
            /\ Find(layouts, call.target) # Null /\ ~ExchangeOverlaps) =>
        /\ (result.preview = Null) <=> (result.swap = Null)
        /\ (result.preview # Null /\ result.swap # Null) =>
            /\ result.preview.sourceNewPos = ZoneOf(Find(result.swap.layouts, call.source))
            /\ result.preview.targetNewPos = ZoneOf(Find(result.swap.layouts, call.target))

\* C29: for every valid input repackWidgets and repackWidgetsOptimal return a layout
\* with the same ids and the same w,h per id, in which no two rects overlap and every
\* rect is inside the grid.
Cex_C29 ==
    call.op \in {"repack", "repackSimple"} =>
        /\ SameSizes(layouts, result.layouts)
        /\ ValidLayout(result.layouts, RepackCols, RepackRows)

\* what does hold of both repacks: ids and sizes are kept and every rect is inside
\* the grid
Aux_C29_SizesInside ==
    call.op \in {"repack", "repackSimple"} =>
        /\ SameSizes(layouts, result.layouts)
        /\ AllInside(result.layouts, RepackCols, RepackRows)

\* C30: once resetLayout has cleared the persisted layout, storage stays cleared until
\* the next layout change; no save scheduled before the reset is written afterwards.
Cex_C30 ==
    (store # Null /\ store.cleared) => store.saved = Null

\* outside a reset the timer always holds the current layout
Aux_C30_PendingIsCurrent ==
    (store # Null /\ store.pending # Null /\ ~store.cleared) =>
        store.pending.layouts = layouts

\* after a reset with no save pending, storage stays cleared until the next layout change
Aux_C30_NoPending ==
    [][(store # Null /\ store.cleared /\ store.pending = Null /\ store.saved = Null) =>
            (store'.cleared => store'.saved = Null)]_vars

====
